---- MODULE Spec2Model ----
(***************************************************************************)
(* A model of lbrynet's SQLite storage layer (lbrynet/database/storage.py) *)
(* and of the stream descriptor validator                                   *)
(* (lbrynet/lbry_file/StreamDescriptor.py).                                 *)
(*                                                                          *)
(* The database is the record db of five tables; a table is a set of rows.  *)
(* Tables whose rowid is observable (stream_blob, file, claim) carry it.    *)
(* Every statement is an operator from a database to a result               *)
(* [db, err]; an interaction (one adbapi transaction) is a sequence of      *)
(* statements that is committed when none raised and rolled back otherwise. *)
(***************************************************************************)
EXTENDS Integers, Sequences, FiniteSets, TLC

\* ------------------------------------------------------------------ bounds
NumBlobs == 2          \* distinct blob hashes
NumStreams == 1        \* distinct stream hashes
NumOutpoints == 1      \* distinct claim outpoints
MaxChain == 2          \* longest blob chain handed to store_stream
MaxStreamBlobs == 2    \* rows the stream_blob table may hold
MaxCalls == 1          \* calls of several interactions that may be in flight
MaxTime == 2           \* last instant of the clock
MaxLength == 2         \* largest blob length

\* Python's None and SQL's NULL.
NULL == 0

BlobHashes == 1..NumBlobs
StreamHashes == 1..NumStreams
Outpoints == 1..NumOutpoints
Lengths == 1..MaxLength
CallIds == 1..MaxCalls
IVs == {"iv"}
Keys == {"key"}
Names == {"6e616d65"}
BlobStatus == {"pending", "finished"}
FileStatus == {"running", "stopped"}

\* The connections of the adbapi pool (cp_min = 3 worker threads, one sqlite3
\* connection each).  setup() runs "pragma foreign_keys=on" in one interaction,
\* hence on one connection; the pragma is a per-connection setting of SQLite
\* and is off on a freshly opened connection.
NumConnections == 3
Connections == 1..NumConnections
SetupConnection == 1
foreign_keys(conn) == conn = SetupConnection

\* Whether foreign keys are enforced where an interaction runs: it runs on the
\* connection of whichever worker thread of the pool takes it.
ForeignKeys == {foreign_keys(conn) : conn \in Connections}

VARIABLES
    db,      \* the five tables of lbrynet.sqlite
    calls,   \* the calls in flight that span several interactions
    now,     \* time.time()
    last,    \* the step taken last: the call that ended in it and its outcome
    raw_info \* the descriptor held by an EncryptedFileStreamDescriptorValidator

vars == <<db, calls, now, last, raw_info>>

\* ------------------------------------------------------------ SQL helpers
Max(S) == CHOOSE x \in S : \A y \in S : y <= x

\* The rowid SQLite gives to a row inserted into a rowid table.
NextRowid(table) == IF table = {} THEN 1 ELSE Max({r.rowid : r \in table}) + 1

Ok(d) == [db |-> d, err |-> ""]
Raise(d, e) == [db |-> d, err |-> e]

BlobExists(d, h) == \E r \in d.blob : r.blob_hash = h
StreamExists(d, s) == \E r \in d.stream : r.stream_hash = s
ClaimExists(d, o) == \E r \in d.claim : r.claim_outpoint = o

\* insert into blob values (?, ?, ?, ?, ?)
InsertBlob(d, fk, blob_hash, blob_length, next_announce_time, should_announce, status) ==
    IF BlobExists(d, blob_hash)
    THEN Raise(d, "IntegrityError")
    ELSE Ok([d EXCEPT !.blob = @ \cup {[blob_hash |-> blob_hash,
                                         blob_length |-> blob_length,
                                         next_announce_time |-> next_announce_time,
                                         should_announce |-> should_announce,
                                         status |-> status]}])

\* insert into stream values (?, ?, ?, ?, ?)
InsertStream(d, fk, stream_hash, sd_hash, stream_key, stream_name, suggested_filename) ==
    IF StreamExists(d, stream_hash)
    THEN Raise(d, "IntegrityError")
    ELSE IF fk /\ ~BlobExists(d, sd_hash)
    THEN Raise(d, "IntegrityError")
    ELSE Ok([d EXCEPT !.stream = @ \cup {[stream_hash |-> stream_hash,
                                           sd_hash |-> sd_hash,
                                           stream_key |-> stream_key,
                                           stream_name |-> stream_name,
                                           suggested_filename |-> suggested_filename]}])

\* insert into stream_blob values (?, ?, ?, ?)
\* The primary key (stream_hash, blob_hash) does not constrain a NULL blob_hash,
\* and a NULL child key satisfies its foreign key.
InsertStreamBlob(d, fk, stream_hash, blob_hash, position, iv) ==
    IF blob_hash # NULL /\ \E r \in d.stream_blob :
                               r.stream_hash = stream_hash /\ r.blob_hash = blob_hash
    THEN Raise(d, "IntegrityError")
    ELSE IF fk /\ (~StreamExists(d, stream_hash)
                   \/ (blob_hash # NULL /\ ~BlobExists(d, blob_hash)))
    THEN Raise(d, "IntegrityError")
    ELSE Ok([d EXCEPT !.stream_blob = @ \cup {[rowid |-> NextRowid(d.stream_blob),
                                                stream_hash |-> stream_hash,
                                                blob_hash |-> blob_hash,
                                                position |-> position,
                                                iv |-> iv]}])

\* insert or replace into file: the row that holds the stream_hash gives way.
InsertFile_or_replace(d, fk, stream_hash, claim_outpoint, file_name, status) ==
    IF fk /\ (~StreamExists(d, stream_hash) \/ ~ClaimExists(d, claim_outpoint))
    THEN Raise(d, "IntegrityError")
    ELSE Ok([d EXCEPT !.file = {r \in @ : r.stream_hash # stream_hash}
                                 \cup {[rowid |-> NextRowid(d.file),
                                        stream_hash |-> stream_hash,
                                        claim_outpoint |-> claim_outpoint,
                                        file_name |-> file_name,
                                        status |-> status]}])

\* insert into file values (?, ?, ?, ?, ?, ?)
InsertFile(d, fk, stream_hash, claim_outpoint, file_name, status) ==
    IF \E r \in d.file : r.stream_hash = stream_hash
    THEN Raise(d, "IntegrityError")
    ELSE IF fk /\ (~StreamExists(d, stream_hash) \/ ~ClaimExists(d, claim_outpoint))
    THEN Raise(d, "IntegrityError")
    ELSE Ok([d EXCEPT !.file = @ \cup {[rowid |-> NextRowid(d.file),
                                         stream_hash |-> stream_hash,
                                         claim_outpoint |-> claim_outpoint,
                                         file_name |-> file_name,
                                         status |-> status]}])

\* insert into claim values (?, ?, ?, ?, ?, ?, ?, ?, ?)
InsertClaim(d, fk, claim_outpoint, claim_id, height) ==
    IF ClaimExists(d, claim_outpoint)
    THEN Raise(d, "IntegrityError")
    ELSE Ok([d EXCEPT !.claim = @ \cup {[rowid |-> NextRowid(d.claim),
                                          claim_outpoint |-> claim_outpoint,
                                          claim_id |-> claim_id,
                                          height |-> height]}])

\* delete from blob where blob_hash=?
\* A parent row that a child still names cannot be deleted where foreign keys
\* are enforced; "blob_hash = NULL" matches no row.
DeleteBlob(d, fk, blob_hash) ==
    IF fk /\ BlobExists(d, blob_hash)
          /\ (\/ \E r \in d.stream : r.sd_hash = blob_hash
              \/ \E r \in d.stream_blob : r.blob_hash = blob_hash)
    THEN Raise(d, "IntegrityError")
    ELSE Ok([d EXCEPT !.blob = {r \in @ : r.blob_hash # blob_hash}])

\* delete from stream where stream_hash=?
DeleteStreamRow(d, fk, stream_hash) ==
    IF fk /\ StreamExists(d, stream_hash)
          /\ (\/ \E r \in d.stream_blob : r.stream_hash = stream_hash
              \/ \E r \in d.file : r.stream_hash = stream_hash)
    THEN Raise(d, "IntegrityError")
    ELSE Ok([d EXCEPT !.stream = {r \in @ : r.stream_hash # stream_hash}])

\* delete from stream_blob where stream_hash=?
DeleteStreamBlobs(d, fk, stream_hash) ==
    Ok([d EXCEPT !.stream_blob = {r \in @ : r.stream_hash # stream_hash}])

\* delete from file where stream_hash=?
DeleteFile(d, fk, stream_hash) ==
    Ok([d EXCEPT !.file = {r \in @ : r.stream_hash # stream_hash}])

\* adbapi.ConnectionPool.runInteraction: commit when the interaction returned,
\* roll back when it raised.
\* A connection that keeps what the interaction wrote before it raised.
RollbackNothing(before, r) == r.db

Rollback(before, r) == before
runInteraction(before, r) == IF r.err # "" THEN Rollback(before, r) ELSE r.db

\* ---------------------------------------------------------------- queries
\* The absent status: get_blob_status maps an empty result to None.
None == "None"

\* select status from blob where blob_hash=?
get_blob_status(d, blob_hash) ==
    IF BlobExists(d, blob_hash)
    THEN (CHOOSE r \in d.blob : r.blob_hash = blob_hash).status
    ELSE None

\* select sd_hash from stream where stream_hash=?
get_sd_blob_hash_for_stream(d, stream_hash) ==
    IF StreamExists(d, stream_hash)
    THEN (CHOOSE r \in d.stream : r.stream_hash = stream_hash).sd_hash
    ELSE NULL

\* select stream_hash from stream
get_all_streams(d) == {r.stream_hash : r \in d.stream}

\* select blob_hash from blob
get_all_blob_hashes(d) == {r.blob_hash : r \in d.blob}

\* sorted(crypt_blob_infos, key=lambda info: info.blob_num) over the rows as
\* fetched; rows of equal blob_num keep the order they were fetched in, taken
\* here to be rowid order.
RECURSIVE SortedByBlobNum(_)
SortedByBlobNum(rows) ==
    IF rows = {} THEN <<>>
    ELSE LET first == CHOOSE r \in rows : \A q \in rows :
                          \/ r.position < q.position
                          \/ (r.position = q.position /\ r.rowid <= q.rowid)
         IN <<first>> \o SortedByBlobNum(rows \ {first})

\* CryptBlobInfo(blob_hash, position, blob_length, iv): the length is that of the
\* blob row, 0 when there is none or when the blob_hash is NULL.
CryptBlobInfo(d, row) ==
    [blob_hash |-> row.blob_hash,
     blob_num |-> row.position,
     length |-> IF row.blob_hash # NULL /\ BlobExists(d, row.blob_hash)
                THEN (CHOOSE r \in d.blob : r.blob_hash = row.blob_hash).blob_length
                ELSE 0,
     iv |-> row.iv]

\* The entries in the order the rows were fetched in, without the sort.
get_blobs_for_stream_unsorted(d, stream_hash) ==
    LET rows == {r \in d.stream_blob : r.stream_hash = stream_hash}
        fetched == CHOOSE seq \in [1..Cardinality(rows) -> rows] :
                       \A i, j \in DOMAIN seq : i < j => seq[i].rowid < seq[j].rowid
    IN [i \in 1..Cardinality(rows) |-> CryptBlobInfo(d, fetched[i])]

get_blobs_for_stream(d, stream_hash) ==
    LET sorted == SortedByBlobNum({r \in d.stream_blob : r.stream_hash = stream_hash})
    IN [i \in 1..Len(sorted) |-> CryptBlobInfo(d, sorted[i])]

\* ----------------------------------------------------------- interactions
\* for blob_info in blob_infos: insert into stream_blob values (...)
RECURSIVE InsertStreamBlobs(_, _, _, _)
InsertStreamBlobs(r, fk, stream_hash, blob_infos) ==
    IF blob_infos = <<>> \/ r.err # "" THEN r
    ELSE InsertStreamBlobs(
             InsertStreamBlob(r.db, fk, stream_hash, Head(blob_infos).blob_hash,
                              Head(blob_infos).blob_num, Head(blob_infos).iv),
             fk, stream_hash, Tail(blob_infos))

\* for blob_hash in blob_hashes: delete from blob where blob_hash=?
RECURSIVE DeleteBlobs(_, _, _)
DeleteBlobs(r, fk, blob_hashes) ==
    IF blob_hashes = <<>> \/ r.err # "" THEN r
    ELSE DeleteBlobs(DeleteBlob(r.db, fk, Head(blob_hashes)), fk, Tail(blob_hashes))

_store_stream(d, fk, stream_hash, sd_hash, stream_key, stream_name, suggested_file_name, stream_blob_infos) ==
    InsertStreamBlobs(
        InsertStream(d, fk, stream_hash, sd_hash, stream_key, stream_name,
                     suggested_file_name),
        fk, stream_hash, stream_blob_infos)

_add_stream_blobs(d, fk, stream_hash, blob_infos) ==
    InsertStreamBlobs(Ok(d), fk, stream_hash, blob_infos)

delete_blobs(d, fk, blob_hashes) == DeleteBlobs(Ok(d), fk, blob_hashes)

\* _delete_stream without the delete of the descriptor blob.
_delete_stream_keeps_sd_blob(d, fk, stream_hash, sd_hash, blob_hashes) ==
    LET r1 == DeleteFile(d, fk, stream_hash)
        r2 == DeleteStreamBlobs(r1.db, fk, stream_hash)
        r3 == DeleteStreamRow(r2.db, fk, stream_hash)
    IN DeleteBlobs(r3, fk, blob_hashes)

_delete_stream(d, fk, stream_hash, sd_hash, blob_hashes) ==
    LET r1 == DeleteFile(d, fk, stream_hash)
        r2 == DeleteStreamBlobs(r1.db, fk, stream_hash)
        r3 == DeleteStreamRow(r2.db, fk, stream_hash)
        r4 == IF r3.err # "" THEN r3 ELSE DeleteBlob(r3.db, fk, sd_hash)
    IN DeleteBlobs(r4, fk, blob_hashes)

do_save(d, fk, stream_hash, outpoint, file_name, status) ==
    InsertFile(d, fk, stream_hash, outpoint, file_name, status)

\* The statements run when claim_info['supports'] is not empty do not execute
\* (a malformed delete and a misplaced argument): the interaction raises.
_save_claim(d, fk, outpoint, claim_id, height, supports) ==
    LET r == InsertClaim(d, fk, outpoint, claim_id, height)
    IN IF r.err = "" /\ supports THEN Raise(r.db, "Error") ELSE r

\* update blob set <column>=?, ... where blob_hash=?
UpdateBlob(d, blob_hash, columns) ==
    [d EXCEPT !.blob =
        {IF r.blob_hash = blob_hash
         THEN [k \in DOMAIN r |-> IF k \in DOMAIN columns THEN columns[k] ELSE r[k]]
         ELSE r : r \in @}]

set_blob_status(d, blob_hash, status) ==
    UpdateBlob(d, blob_hash, [status |-> status])

set_should_announce(d, blob_hash, next_announce_time, should_announce) ==
    UpdateBlob(d, blob_hash,
               [next_announce_time |-> next_announce_time,
                should_announce |-> IF should_announce # 0 THEN 1 ELSE 0])

set_blob_length(d, blob_hash, length) ==
    UpdateBlob(d, blob_hash, [blob_length |-> length])

\* ------------------------------------------------------ announce schedule
min_reannounce_time == 60 * 60
single_announce_duration == 5

\* The values hash_announcer.hash_queue_size() may report.
QueueSizes == {0, 1000}

\* time_time is the clock read by get_next_announce_time itself.
\* A next announce time without the reannounce interval.
get_next_announce_time_now(hash_queue_size, num_hashes_to_announce, time_time) ==
    time_time

\* A queue size without the hashes about to be announced.
get_next_announce_time_queue_only(hash_queue_size, num_hashes_to_announce, time_time) ==
    time_time + Max({min_reannounce_time, hash_queue_size * single_announce_duration})

get_next_announce_time(hash_queue_size, num_hashes_to_announce, time_time) ==
    LET queue_size == hash_queue_size + num_hashes_to_announce
        reannounce == Max({min_reannounce_time, queue_size * single_announce_duration})
    IN time_time + reannounce

\* The rows a select over blob returns, as the list of their hashes.
RECURSIVE HashList(_)
HashList(rows) ==
    IF rows = {} THEN <<>>
    ELSE LET first == CHOOSE r \in rows : \A q \in rows : r.blob_hash <= q.blob_hash
         IN <<first.blob_hash>> \o HashList(rows \ {first})

\* select blob_hash from blob where blob_hash is not null [and should_announce=1]
\*     and next_announce_time<?
SelectToAnnounce(d, announce_head_blobs_only, timestamp) ==
    {r \in d.blob : /\ r.blob_hash # NULL
                    /\ announce_head_blobs_only => r.should_announce = 1
                    /\ r.next_announce_time < timestamp}

\* update blob set next_announce_time=? where next_announce_time<?
UpdateAnnounceTime(d, next_announce_time, timestamp) ==
    [d EXCEPT !.blob = {IF r.next_announce_time < timestamp
                        THEN [r EXCEPT !.next_announce_time = next_announce_time]
                        ELSE r : r \in @}]

\* timestamp is the clock read first in the interaction, time_time the clock
\* read by get_next_announce_time.
get_and_update(d, announce_head_blobs_only, hash_queue_size, timestamp, time_time) ==
    LET blobs == HashList(SelectToAnnounce(d, announce_head_blobs_only, timestamp))
        next_announce_time == get_next_announce_time(hash_queue_size, Len(blobs), time_time)
    IN [db |-> UpdateAnnounceTime(d, next_announce_time, timestamp),
        err |-> "",
        blobs |-> blobs,
        next_announce_time |-> next_announce_time]

\* ------------------------------------------------------------------ state
NoDescriptor == [blobs |-> <<>>]
Idle == [op |-> "idle"]
Step == [op |-> "step"]

EmptyDb == [blob |-> {}, stream |-> {}, stream_blob |-> {}, file |-> {}, claim |-> {}]

\* The state after SQLiteStorage(db_dir).setup(): the five tables, empty.
Init ==
    /\ db = EmptyDb
    /\ calls = [c \in CallIds |-> Idle]
    /\ now = 1
    /\ last = [op |-> "setup"]
    /\ raw_info = NoDescriptor

\* The number of rows by which two states of a table differ; for the whole
\* database, table by table.
Changed(before, after) == Cardinality((before \ after) \cup (after \ before))
Changes(before, after) ==
    [blob |-> Changed(before.blob, after.blob),
     stream |-> Changed(before.stream, after.stream),
     stream_blob |-> Changed(before.stream_blob, after.stream_blob),
     file |-> Changed(before.file, after.file)]

\* What a call that ended hands to its caller.
Outcome(r) == IF r.err = "" THEN "ok" ELSE r.err

\* ------------------------------------------------- single-interaction calls
store_stream(stream_hash, sd_hash, stream_name, stream_key, suggested_file_name, stream_blob_infos, fk) ==
    LET r == _store_stream(db, fk, stream_hash, sd_hash, stream_key,
                           stream_name, suggested_file_name, stream_blob_infos)
    IN /\ Cardinality(db.stream_blob) + Len(stream_blob_infos) <= MaxStreamBlobs
       /\ db' = runInteraction(db, r)
       /\ last' = [op |-> "store_stream", stream_hash |-> stream_hash,
                   outcome |-> Outcome(r), changes |-> Changes(db, db'),
                   written |-> Changes(db, r.db)]
       /\ UNCHANGED <<calls, now, raw_info>>

add_blobs_to_stream(stream_hash, blob_infos, fk) ==
    LET r == _add_stream_blobs(db, fk, stream_hash, blob_infos)
    IN /\ Cardinality(db.stream_blob) + Len(blob_infos) <= MaxStreamBlobs
       /\ db' = runInteraction(db, r)
       /\ last' = [op |-> "add_blobs_to_stream", stream_hash |-> stream_hash,
                   outcome |-> Outcome(r), changes |-> Changes(db, db')]
       /\ UNCHANGED <<calls, now, raw_info>>

delete_blobs_from_db(blob_hashes, fk) ==
    LET r == delete_blobs(db, fk, blob_hashes)
    IN /\ db' = runInteraction(db, r)
       /\ last' = [op |-> "delete_blobs_from_db",
                   outcome |-> Outcome(r), changes |-> Changes(db, db')]
       /\ UNCHANGED <<calls, now, raw_info>>

save_lbry_file(stream_hash, outpoint, file_name, status, fk) ==
    LET r == do_save(db, fk, stream_hash, outpoint, file_name, status)
    IN /\ db' = runInteraction(db, r)
       /\ last' = [op |-> "save_lbry_file", stream_hash |-> stream_hash,
                   outcome |-> Outcome(r),
                   file_rowid |-> IF r.err = "" THEN NextRowid(db.file) ELSE NULL]
       /\ UNCHANGED <<calls, now, raw_info>>

save_claim(outpoint, claim_id, height, supports, fk) ==
    LET r == _save_claim(db, fk, outpoint, claim_id, height, supports)
    IN /\ db' = runInteraction(db, r)
       /\ last' = [op |-> "save_claim", outcome |-> Outcome(r)]
       /\ UNCHANGED <<calls, now, raw_info>>

\* set_should_announce and set_blob_status called on their own.
call_set_should_announce(blob_hash, next_announce_time, should_announce) ==
    /\ db' = set_should_announce(db, blob_hash, next_announce_time, should_announce)
    /\ last' = [op |-> "set_should_announce", blob_hash |-> blob_hash, outcome |-> "ok"]
    /\ UNCHANGED <<calls, now, raw_info>>

call_set_blob_status(blob_hash, status) ==
    /\ db' = set_blob_status(db, blob_hash, status)
    /\ last' = [op |-> "set_blob_status", blob_hash |-> blob_hash, outcome |-> "ok"]
    /\ UNCHANGED <<calls, now, raw_info>>

\* conf.settings['announce_head_blobs_only'] is read when the interaction runs;
\* the clock may advance between the interaction's two readings of it.
get_blobs_to_announce(announce_head_blobs_only, hash_queue_size, time_time) ==
    LET r == get_and_update(db, announce_head_blobs_only, hash_queue_size, now, time_time)
    IN /\ time_time \in now..MaxTime
       /\ db' = runInteraction(db, r)
       /\ now' = time_time
       /\ last' = [op |-> "get_blobs_to_announce",
                   announce_head_blobs_only |-> announce_head_blobs_only,
                   outcome |-> "ok", blobs |-> r.blobs]
       /\ UNCHANGED <<calls, raw_info>>

Tick ==
    /\ now < MaxTime
    /\ now' = now + 1
    /\ last' = Step
    /\ UNCHANGED <<db, calls, raw_info>>

\* ------------------------------------------------ calls of several interactions
\* A call runs up to its first yield when it is made; every later interaction
\* runs when the pool gets to it, other interactions possibly in between.
Return(c, record) ==
    /\ calls' = [calls EXCEPT ![c] = Idle]
    /\ last' = record

Goto(c, pc) ==
    /\ calls' = [calls EXCEPT ![c].pc = pc]
    /\ last' = Step

call_add_known_blob(c, blob_hash, length) ==
    /\ calls[c] = Idle
    /\ calls' = [calls EXCEPT ![c] = [op |-> "add_known_blob", pc |-> "get_blob_status",
                                      blob_hash |-> blob_hash, length |-> length]]
    /\ last' = Step
    /\ UNCHANGED <<db, now, raw_info>>

call_add_completed_blob(c, blob_hash, length, next_announce_time, should_announce) ==
    /\ calls[c] = Idle
    /\ calls' = [calls EXCEPT ![c] = [op |-> "add_completed_blob",
                                      pc |-> "get_blob_status",
                                      blob_hash |-> blob_hash, length |-> length,
                                      next_announce_time |-> next_announce_time,
                                      should_announce |-> should_announce]]
    /\ last' = Step
    /\ UNCHANGED <<db, now, raw_info>>

\* add_known_blob returns status: to its caller, or into add_completed_blob's
\* callback chain.
add_known_blob_returns(c, status) ==
    IF calls[c].op = "add_known_blob"
    THEN Return(c, [op |-> "add_known_blob", blob_hash |-> calls[c].blob_hash,
                    outcome |-> "ok", status |-> status,
                    inserted |-> calls[c].pc = "insert"])
    ELSE Goto(c, "set_blob_status")

\* An add_known_blob that inserts without looking at the status it read.
add_known_blob_status_unchecked(c) ==
    /\ calls[c].op \in {"add_known_blob", "add_completed_blob"}
    /\ calls[c].pc = "get_blob_status"
    /\ Goto(c, "insert")
    /\ UNCHANGED <<db, now, raw_info>>

\* status = yield self.get_blob_status(blob_hash)
add_known_blob_status(c) ==
    /\ calls[c].op \in {"add_known_blob", "add_completed_blob"}
    /\ calls[c].pc = "get_blob_status"
    /\ LET status == get_blob_status(db, calls[c].blob_hash)
       IN IF status = None
          THEN Goto(c, "insert")
          ELSE add_known_blob_returns(c, status)
    /\ UNCHANGED <<db, now, raw_info>>

\* yield self.db.runOperation("insert into blob values (?, ?, ?, ?, ?)", ...)
add_known_blob_insert(c) ==
    /\ calls[c].op \in {"add_known_blob", "add_completed_blob"}
    /\ calls[c].pc = "insert"
    /\ LET r == InsertBlob(db, FALSE, calls[c].blob_hash, calls[c].length, 0, 0, "pending")
       IN /\ db' = runInteraction(db, r)
          /\ IF r.err # ""
             THEN Return(c, [op |-> calls[c].op, blob_hash |-> calls[c].blob_hash,
                             outcome |-> r.err])
             ELSE add_known_blob_returns(c, "pending")
    /\ UNCHANGED <<now, raw_info>>

\* d.addCallback(lambda _: self.set_blob_status(blob_hash, "finished"))
add_completed_blob_status(c) ==
    /\ calls[c].op = "add_completed_blob"
    /\ calls[c].pc = "set_blob_status"
    /\ db' = set_blob_status(db, calls[c].blob_hash, "finished")
    /\ Goto(c, "set_should_announce")
    /\ UNCHANGED <<now, raw_info>>

\* d.addCallback(lambda _: self.set_should_announce(blob_hash, ...))
add_completed_blob_announce(c) ==
    /\ calls[c].op = "add_completed_blob"
    /\ calls[c].pc = "set_should_announce"
    /\ db' = set_should_announce(db, calls[c].blob_hash, calls[c].next_announce_time,
                                 calls[c].should_announce)
    /\ Goto(c, "set_blob_length")
    /\ UNCHANGED <<now, raw_info>>

\* d.addCallback(lambda _: self.db.runOperation("update blob set blob_length=? ..."))
add_completed_blob_length(c) ==
    /\ calls[c].op = "add_completed_blob"
    /\ calls[c].pc = "set_blob_length"
    /\ db' = set_blob_length(db, calls[c].blob_hash, calls[c].length)
    /\ Return(c, [op |-> "add_completed_blob", blob_hash |-> calls[c].blob_hash,
                  outcome |-> "ok"])
    /\ UNCHANGED <<now, raw_info>>

call_delete_stream(c, stream_hash) ==
    /\ calls[c] = Idle
    /\ calls' = [calls EXCEPT ![c] = [op |-> "delete_stream",
                                      pc |-> "get_sd_blob_hash_for_stream",
                                      stream_hash |-> stream_hash,
                                      sd_hash |-> NULL, blob_hashes |-> <<>>]]
    /\ last' = Step
    /\ UNCHANGED <<db, now, raw_info>>

\* sd_hash = yield self.get_sd_blob_hash_for_stream(stream_hash)
delete_stream_sd_hash(c) ==
    /\ calls[c].op = "delete_stream"
    /\ calls[c].pc = "get_sd_blob_hash_for_stream"
    /\ calls' = [calls EXCEPT ![c].pc = "get_blobs_for_stream",
                              ![c].sd_hash =
                                  get_sd_blob_hash_for_stream(db, calls[c].stream_hash)]
    /\ last' = Step
    /\ UNCHANGED <<db, now, raw_info>>

\* stream_blobs = yield self.get_blobs_for_stream(stream_hash)
\* blob_hashes = [b.blob_hash for b in stream_blobs]
delete_stream_blobs(c) ==
    /\ calls[c].op = "delete_stream"
    /\ calls[c].pc = "get_blobs_for_stream"
    /\ LET stream_blobs == get_blobs_for_stream(db, calls[c].stream_hash)
       IN calls' = [calls EXCEPT ![c].pc = "_delete_stream",
                                 ![c].blob_hashes =
                                     [i \in 1..Len(stream_blobs) |-> stream_blobs[i].blob_hash]]
    /\ last' = Step
    /\ UNCHANGED <<db, now, raw_info>>

\* yield self.db.runInteraction(_delete_stream)
delete_stream_delete(c, fk) ==
    /\ calls[c].op = "delete_stream"
    /\ calls[c].pc = "_delete_stream"
    /\ LET r == _delete_stream(db, fk, calls[c].stream_hash,
                               calls[c].sd_hash, calls[c].blob_hashes)
       IN /\ db' = runInteraction(db, r)
          /\ Return(c, [op |-> "delete_stream", stream_hash |-> calls[c].stream_hash,
                        sd_hash |-> calls[c].sd_hash,
                        blob_hashes |-> calls[c].blob_hashes,
                        outcome |-> Outcome(r), changes |-> Changes(db, db')])
    /\ UNCHANGED <<now, raw_info>>

\* ------------------------------------------------------------------ inputs
\* A blob_info dictionary of a chain: blob_hash is absent (None) for the
\* terminator.
BlobInfo(blob_hash, blob_num, iv) ==
    [blob_hash |-> blob_hash, blob_num |-> blob_num, iv |-> iv]

\* The chains handed to store_stream: entry i carries blob_num i - 1.
Chains ==
    UNION {{[i \in 1..n |-> BlobInfo(hashes[i], i - 1, "iv")] :
               hashes \in [1..n -> BlobHashes \cup {NULL}]} : n \in 0..MaxChain}

\* The lists handed to add_blobs_to_stream: one entry, at any position.
NewBlobs ==
    {<<BlobInfo(h, n, "iv")>> : h \in BlobHashes \cup {NULL}, n \in 0..MaxChain - 1}

\* The lists handed to delete_blobs_from_db.
HashLists == UNION {[1..n -> BlobHashes] : n \in 1..2}

CallStep(c) ==
    \/ add_known_blob_status(c)
    \/ add_known_blob_insert(c)
    \/ delete_stream_sd_hash(c)
    \/ delete_stream_blobs(c)
    \/ \E fk \in ForeignKeys : delete_stream_delete(c, fk)

\* The stream assembler and the file registry over the content store, whose
\* blobs are the pending rows add_known_blob inserts.
Next ==
    \/ \E c \in CallIds, h \in BlobHashes : call_add_known_blob(c, h, 1)
    \/ \E c \in CallIds, s \in StreamHashes : call_delete_stream(c, s)
    \/ \E c \in CallIds : CallStep(c)
    \/ \E s \in StreamHashes, sd \in BlobHashes, chain \in Chains, fk \in ForeignKeys :
           store_stream(s, sd, "6e616d65", "key", "6e616d65", chain, fk)
    \/ \E s \in StreamHashes, infos \in NewBlobs, fk \in ForeignKeys :
           add_blobs_to_stream(s, infos, fk)
    \/ \E hashes \in HashLists, fk \in ForeignKeys : delete_blobs_from_db(hashes, fk)
    \/ \E s \in StreamHashes, o \in Outpoints, fk \in ForeignKeys :
           save_lbry_file(s, o, "6e616d65", "stopped", fk)
    \/ \E o \in Outpoints, supports \in BOOLEAN, fk \in ForeignKeys :
           save_claim(o, 1, 1, supports, fk)

Spec == Init /\ [][Next]_vars

\* The content store and its announce schedule.
NextAnnounce ==
    \/ \E c \in CallIds, h \in BlobHashes, len \in Lengths : call_add_known_blob(c, h, len)
    \/ \E c \in CallIds, h \in BlobHashes, a \in {0, 1} :
           call_add_completed_blob(c, h, 1, 0, a)
    \/ \E c \in CallIds :
           \/ add_known_blob_status(c)
           \/ add_known_blob_insert(c)
           \/ add_completed_blob_status(c)
           \/ add_completed_blob_announce(c)
           \/ add_completed_blob_length(c)
    \/ \E h \in BlobHashes, a \in {0, 1} : call_set_should_announce(h, 0, a)
    \/ \E h \in BlobHashes : call_set_blob_status(h, "finished")
    \/ \E head \in BOOLEAN, q \in QueueSizes, t \in 1..MaxTime :
           get_blobs_to_announce(head, q, t)
    \/ Tick

SpecAnnounce == Init /\ [][NextAnnounce]_vars

\* ------------------------------------------------ stream descriptor validator
\* A byte string is a sequence of one-character strings; a dict is a function
\* whose domain is the set of its keys.
MaxDescriptorBlobs == 2

Has(dict, key) == key \in DOMAIN dict
HexDigits == <<"0", "1", "2", "3", "4", "5", "6", "7", "8", "9", "a", "b", "c", "d", "e", "f">>
IsHex(c) == \E i \in 1..Len(HexDigits) : HexDigits[i] = c

\* str() of a non-negative int: its decimal digits.
RECURSIVE str(_)
str(n) == IF n < 10 THEN <<HexDigits[n + 1]>>
          ELSE str(n \div 10) \o <<HexDigits[(n % 10) + 1]>>

\* The hash object accumulates the bytes it is fed.  The hash is taken to be
\* collision-free: a digest determines the bytes that were fed.  A digest has a
\* fixed length, so it is delimited where it stands in a longer input; the
\* characters "[" "]" "<" ">" occur in no input string.
get_lbry_hash_obj == <<>>
update(h, data) == h \o data
digest(h) == <<"[">> \o h \o <<"]">>
hexdigest(h) == <<"<">> \o h \o <<">">>

Returned(value) == [error |-> "", reason |-> "", value |-> value]
Raised(error, reason) == [error |-> error, reason |-> reason, value |-> <<>>]
InvalidStreamDescriptorError(reason) == Raised("InvalidStreamDescriptorError", reason)
KeyError(key) == Raised("KeyError", key)
IndexError == Raised("IndexError", "list index out of range")

\* get_blob_hashsum without the iv in the digest.
get_blob_hashsum_without_iv(b) ==
    IF ~Has(b, "length") THEN KeyError("length")
    ELSE IF b.length # 0 /\ ~Has(b, "blob_hash") THEN KeyError("blob_hash")
    ELSE IF ~Has(b, "blob_num") THEN KeyError("blob_num")
    ELSE IF ~Has(b, "iv") THEN KeyError("iv")
    ELSE LET blob_hashsum == get_lbry_hash_obj
             h1 == IF b.length # 0 THEN update(blob_hashsum, b.blob_hash)
                   ELSE blob_hashsum
             h2 == update(h1, str(b.blob_num))
             h4 == update(h2, str(b.length))
         IN  Returned(digest(h4))

get_blob_hashsum(b) ==
    IF ~Has(b, "length") THEN KeyError("length")
    ELSE IF b.length # 0 /\ ~Has(b, "blob_hash") THEN KeyError("blob_hash")
    ELSE IF ~Has(b, "blob_num") THEN KeyError("blob_num")
    ELSE IF ~Has(b, "iv") THEN KeyError("iv")
    ELSE LET blob_hashsum == get_lbry_hash_obj
             h1 == IF b.length # 0 THEN update(blob_hashsum, b.blob_hash)
                   ELSE blob_hashsum
             h2 == update(h1, str(b.blob_num))
             h3 == update(h2, b.iv)
             h4 == update(h3, str(b.length))
         IN  Returned(digest(h4))

\* The loop over blobs: the aggregate hash object, or the first error raised.
RECURSIVE blobs_hashsum(_, _)
blobs_hashsum(blobs, h) ==
    IF blobs = <<>> THEN Returned(h)
    ELSE LET sum == get_blob_hashsum(Head(blobs))
         IN  IF sum.error # "" THEN sum
             ELSE blobs_hashsum(Tail(blobs), update(h, sum.value))

TopLevelFields == <<"stream_name", "key", "suggested_file_name", "stream_hash", "blobs">>

\* "Missing '%s'" of the first field, in the order read, that is absent.
Missing(raw) ==
    IF ~Has(raw, "stream_name") THEN "Missing 'stream_name'"
    ELSE IF ~Has(raw, "key") THEN "Missing 'key'"
    ELSE IF ~Has(raw, "suggested_file_name") THEN "Missing 'suggested_file_name'"
    ELSE IF ~Has(raw, "stream_hash") THEN "Missing 'stream_hash'"
    ELSE "Missing 'blobs'"

\* The header fields fed to the outer hash object.
HeaderHash(raw) ==
    update(update(update(get_lbry_hash_obj, raw.stream_name), raw.key),
           raw.suggested_file_name)

validate(raw) ==
    IF ~Has(raw, "stream_name") THEN KeyError("stream_name")
    ELSE IF \E i \in 1..Len(TopLevelFields) : ~Has(raw, TopLevelFields[i])
    THEN InvalidStreamDescriptorError(Missing(raw))
    ELSE IF \E i \in 1..Len(raw.suggested_file_name) : ~IsHex(raw.suggested_file_name[i])
    THEN InvalidStreamDescriptorError("Suggested file name is not a hex-encoded string")
    ELSE LET h == HeaderHash(raw)
             sums == blobs_hashsum(raw.blobs, get_lbry_hash_obj)
         IN  IF sums.error # "" THEN sums
             ELSE IF Len(raw.blobs) = 0 THEN IndexError
             ELSE IF raw.blobs[Len(raw.blobs)].length # 0
             THEN InvalidStreamDescriptorError("Does not end with a zero-length blob.")
             ELSE IF hexdigest(update(h, digest(sums.value))) # raw.stream_hash
             THEN InvalidStreamDescriptorError("Stream hash does not match stream metadata")
             ELSE Returned(TRUE)

\* Descriptors offered to the validator.  The values are short so that the
\* fields of an entry can run into each other when they are concatenated.
BlobHashStrings == {<<"a">>, <<"b">>}
IvStrings == {<<"1">>, <<"1", "1">>}
BlobNums == {0, 1, 11}
BlobLengths == {0, 1, 2}
StreamNames == {<<"6", "1">>, <<"6", "2">>}
StreamKeys == {<<"0", "1">>, <<"0", "2">>}
FileNames == {<<"6", "1">>, <<"6", "2">>, <<"z">>}

BlobEntries ==
    [blob_num : BlobNums, iv : IvStrings, length : BlobLengths]
    \cup [blob_hash : BlobHashStrings, blob_num : BlobNums, iv : IvStrings,
          length : BlobLengths]

DescriptorBlobs == UNION {[1..n -> BlobEntries] : n \in 0..MaxDescriptorBlobs}

\* The stream hash a descriptor's author computes for its contents, and a
\* hash of something else.
StreamHashOf(raw) ==
    LET sums == blobs_hashsum(raw.blobs, get_lbry_hash_obj)
    IN  IF sums.error # "" THEN hexdigest(get_lbry_hash_obj)
        ELSE hexdigest(update(HeaderHash(raw), digest(sums.value)))

Descriptor(blobs, honest) ==
    LET raw == [stream_name |-> <<"6", "1">>, key |-> <<"0", "1">>,
                suggested_file_name |-> <<"6", "1">>, blobs |-> blobs]
        claimed == IF honest THEN StreamHashOf(raw) ELSE hexdigest(get_lbry_hash_obj)
    IN  [k \in DOMAIN raw \cup {"stream_hash"} |->
            IF k = "stream_hash" THEN claimed ELSE raw[k]]

Descriptors == {Descriptor(blobs, honest) : blobs \in DescriptorBlobs, honest \in BOOLEAN}

NoChange == [kind |-> "none", index |-> 0, other |-> 0]

InitValidate ==
    /\ db = EmptyDb
    /\ calls = [c \in CallIds |-> Idle]
    /\ now = 1
    /\ raw_info \in Descriptors
    /\ last = [op |-> "descriptor", change |-> NoChange]

call_validate ==
    /\ last.op = "descriptor"
    /\ LET r == validate(raw_info)
       IN  last' = [op |-> "validate", change |-> last.change,
                    error |-> r.error, reason |-> r.reason]
    /\ UNCHANGED <<db, calls, now, raw_info>>

\* One change made to a descriptor that validate accepted.
Accepted == last.op = "validate" /\ last.error = "" /\ last.change = NoChange

SetItem(dict, key, value) ==
    [k \in DOMAIN dict \cup {key} |-> IF k = key THEN value ELSE dict[k]]

change_blob(i, field, value) ==
    /\ Accepted
    /\ i \in 1..Len(raw_info.blobs)
    /\ Has(raw_info.blobs[i], field) => raw_info.blobs[i][field] # value
    /\ raw_info' = [raw_info EXCEPT !.blobs[i] = SetItem(@, field, value)]
    /\ last' = [op |-> "descriptor", change |-> [kind |-> field, index |-> i, other |-> 0]]
    /\ UNCHANGED <<db, calls, now>>

swap_blobs(i, j) ==
    /\ Accepted
    /\ i \in 1..Len(raw_info.blobs) /\ j \in 1..Len(raw_info.blobs) /\ i < j
    /\ raw_info.blobs[i] # raw_info.blobs[j]
    /\ raw_info' = [raw_info EXCEPT !.blobs[i] = raw_info.blobs[j],
                                    !.blobs[j] = raw_info.blobs[i]]
    /\ last' = [op |-> "descriptor", change |-> [kind |-> "order", index |-> i, other |-> j]]
    /\ UNCHANGED <<db, calls, now>>

change_header(field, value) ==
    /\ Accepted
    /\ raw_info[field] # value
    /\ raw_info' = SetItem(raw_info, field, value)
    /\ last' = [op |-> "descriptor", change |-> [kind |-> "header", index |-> 0, other |-> 0]]
    /\ UNCHANGED <<db, calls, now>>

\* A descriptor that lacks one top-level field, or one field of one blob entry.
DelItem(dict, key) == [k \in DOMAIN dict \ {key} |-> dict[k]]

drop_field(field) ==
    /\ Accepted
    /\ raw_info' = DelItem(raw_info, field)
    /\ last' = [op |-> "descriptor", change |-> [kind |-> "missing", index |-> 0, other |-> 0]]
    /\ UNCHANGED <<db, calls, now>>

drop_blob_field(i, field) ==
    /\ Accepted
    /\ i \in 1..Len(raw_info.blobs)
    /\ Has(raw_info.blobs[i], field)
    /\ raw_info' = [raw_info EXCEPT !.blobs[i] = DelItem(@, field)]
    /\ last' = [op |-> "descriptor", change |-> [kind |-> "missing", index |-> i, other |-> 0]]
    /\ UNCHANGED <<db, calls, now>>

NextValidate ==
    \/ call_validate
    \/ \E i \in 1..Len(TopLevelFields) : drop_field(TopLevelFields[i])
    \/ \E i \in 1..MaxDescriptorBlobs, field \in {"blob_hash", "blob_num", "iv", "length"} :
           drop_blob_field(i, field)
    \/ \E i \in 1..MaxDescriptorBlobs :
           \/ \E h \in BlobHashStrings : change_blob(i, "blob_hash", h)
           \/ \E n \in BlobNums : change_blob(i, "blob_num", n)
           \/ \E iv \in IvStrings : change_blob(i, "iv", iv)
           \/ \E len \in BlobLengths : change_blob(i, "length", len)
    \/ \E i, j \in 1..MaxDescriptorBlobs : swap_blobs(i, j)
    \/ \E name \in StreamNames : change_header("stream_name", name)
    \/ \E key \in StreamKeys : change_header("key", key)
    \/ \E name \in FileNames : change_header("suggested_file_name", name)

SpecValidate == InitValidate /\ [][NextValidate]_vars

\* ------------------------------------------------- descriptors in the storage
\* The blob hashes of the storage, as the text a descriptor carries them in,
\* and the hash of the descriptor blob itself.
BlobHashText == << <<"a">>, <<"b">> >>
HashOfText(text) == CHOOSE h \in 1..Len(BlobHashText) : BlobHashText[h] = text
SdHash == Len(BlobHashText) + 1

\* blob_info.get('blob_hash', None), blob_info['blob_num'], blob_info['iv']
StreamBlobInfos(blobs) ==
    [i \in 1..Len(blobs) |->
        [blob_hash |-> IF Has(blobs[i], "blob_hash") THEN HashOfText(blobs[i].blob_hash)
                       ELSE NULL,
         blob_num |-> blobs[i].blob_num,
         iv |-> blobs[i].iv]]

\* if blob_info.get('blob_hash') and blob_info['length']
IsKnownBlob(blob_info) == Has(blob_info, "blob_hash") /\ blob_info.length # 0

\* select stream_hash from stream where sd_hash = ?
get_stream_hash_for_sd_hash(d, sd_blob_hash) ==
    IF \E r \in d.stream : r.sd_hash = sd_blob_hash
    THEN (CHOOSE r \in d.stream : r.sd_hash = sd_blob_hash).stream_hash
    ELSE None

\* select stream_key, stream_name, suggested_filename from stream where stream_hash=?
get_stream_info(d, stream_hash) ==
    IF StreamExists(d, stream_hash)
    THEN LET r == CHOOSE r \in d.stream : r.stream_hash = stream_hash
         IN  <<r.stream_key, r.stream_name, r.suggested_filename>>
    ELSE <<>>

\* get_sd_info.format_blobs: an entry of length 0 carries no blob_hash.
format_blob(blob_info) ==
    IF blob_info.length # 0
    THEN [blob_hash |-> BlobHashText[blob_info.blob_hash], blob_num |-> blob_info.blob_num,
          iv |-> blob_info.iv, length |-> blob_info.length]
    ELSE [blob_num |-> blob_info.blob_num, iv |-> blob_info.iv,
          length |-> blob_info.length]

format_blobs(blobs) == [i \in 1..Len(blobs) |-> format_blob(blobs[i])]

\* get_sd_info.format_info; stream_type is left out, validate does not read it.
format_info(stream_info, stream_hash, blobs) ==
    [stream_name |-> stream_info[2], key |-> stream_info[1],
     suggested_file_name |-> stream_info[3], stream_hash |-> stream_hash,
     blobs |-> format_blobs(blobs)]

InitRoundTrip ==
    /\ db = EmptyDb
    /\ calls = [c \in CallIds |-> Idle]
    /\ now = 1
    /\ last = [op |-> "setup"]
    /\ raw_info \in Descriptors

\* save_sd_info(blob_manager, sd_hash, sd_info) for a descriptor that validate
\* accepts; the descriptor blob is taken to be verified (lines 18-23 skipped).
call_save_sd_info(c, sd_hash) ==
    /\ calls[c] = Idle
    /\ validate(raw_info).error = ""
    /\ calls' = [calls EXCEPT ![c] = [op |-> "save_sd_info",
                                      pc |-> "get_stream_hash_for_sd_hash",
                                      sd_hash |-> sd_hash, sd_info |-> raw_info, i |-> 1]]
    /\ last' = Step
    /\ UNCHANGED <<db, now, raw_info>>

\* stream_hash = yield blob_manager.storage.get_stream_hash_for_sd_hash(sd_hash)
save_sd_info_stream_hash(c) ==
    /\ calls[c].op = "save_sd_info"
    /\ calls[c].pc = "get_stream_hash_for_sd_hash"
    /\ LET stream_hash == get_stream_hash_for_sd_hash(db, calls[c].sd_hash)
       IN  IF stream_hash = None
           THEN Goto(c, "add_known_blobs")
           ELSE Return(c, [op |-> "save_sd_info", outcome |-> "ok", stored |-> FALSE,
                           sd_info |-> calls[c].sd_info])
    /\ UNCHANGED <<db, now, raw_info>>

\* add_known_blobs: the next blob_info of the loop; for one with a hash and a
\* length, add_known_blob's status lookup.
save_sd_info_known_blobs(c) ==
    /\ calls[c].op = "save_sd_info"
    /\ calls[c].pc = "add_known_blobs"
    /\ LET blobs == calls[c].sd_info.blobs
           i == calls[c].i
       IN  IF i > Len(blobs) THEN Goto(c, "store_stream")
           ELSE IF IsKnownBlob(blobs[i])
                   /\ get_blob_status(db, HashOfText(blobs[i].blob_hash)) = None
           THEN Goto(c, "insert")
           ELSE /\ calls' = [calls EXCEPT ![c].i = i + 1]
                /\ last' = Step
    /\ UNCHANGED <<db, now, raw_info>>

\* add_known_blob's insert for the blob_info of the loop.
save_sd_info_insert(c) ==
    /\ calls[c].op = "save_sd_info"
    /\ calls[c].pc = "insert"
    /\ LET blob_info == calls[c].sd_info.blobs[calls[c].i]
           r == InsertBlob(db, FALSE, HashOfText(blob_info.blob_hash), blob_info.length,
                           0, 0, "pending")
       IN  /\ db' = runInteraction(db, r)
           /\ IF r.err # ""
              THEN Return(c, [op |-> "save_sd_info", outcome |-> r.err, stored |-> FALSE,
                              sd_info |-> calls[c].sd_info])
              ELSE /\ calls' = [calls EXCEPT ![c].i = @ + 1, ![c].pc = "add_known_blobs"]
                   /\ last' = Step
    /\ UNCHANGED <<now, raw_info>>

\* yield blob_manager.storage.store_stream(stream_hash, sd_hash, stream_name, key,
\*                                         suggested_file_name, stream_blobs)
save_sd_info_store_stream(c, fk) ==
    /\ calls[c].op = "save_sd_info"
    /\ calls[c].pc = "store_stream"
    /\ LET sd_info == calls[c].sd_info
           r == _store_stream(db, fk, sd_info.stream_hash, calls[c].sd_hash, sd_info.key,
                              sd_info.stream_name, sd_info.suggested_file_name,
                              StreamBlobInfos(sd_info.blobs))
       IN  /\ db' = runInteraction(db, r)
           /\ Return(c, [op |-> "save_sd_info", outcome |-> Outcome(r),
                         stored |-> r.err = "", sd_info |-> sd_info])
    /\ UNCHANGED <<now, raw_info>>

\* get_sd_info(storage, stream_hash, include_blobs) of the stream that a
\* save_sd_info has just stored.
call_get_sd_info(c, include_blobs) ==
    /\ calls[c] = Idle
    /\ last.op = "save_sd_info" /\ last.stored
    /\ calls' = [calls EXCEPT ![c] = [op |-> "get_sd_info", pc |-> "get_stream_info",
                                      stream_hash |-> last.sd_info.stream_hash,
                                      include_blobs |-> include_blobs,
                                      sd_info |-> last.sd_info]]
    /\ last' = Step
    /\ UNCHANGED <<db, now, raw_info>>

\* d = storage.get_stream_info(stream_hash)
get_sd_info_stream_info(c) ==
    /\ calls[c].op = "get_sd_info"
    /\ calls[c].pc = "get_stream_info"
    /\ LET stream_info == get_stream_info(db, calls[c].stream_hash)
       IN  IF stream_info = <<>>
           THEN Return(c, [op |-> "get_sd_info", outcome |-> "TypeError"])
           ELSE /\ calls' = [calls EXCEPT ![c] =
                       [k \in DOMAIN @ \cup {"stream_info"} |->
                           IF k = "stream_info" THEN stream_info
                           ELSE IF k = "pc" THEN "get_blobs_for_stream" ELSE @[k]]]
                /\ last' = Step
    /\ UNCHANGED <<db, now, raw_info>>

\* d = storage.get_blobs_for_stream(stream_hash); d.addCallback(format_blobs)
\* The descriptor it yields is handed to a validator.
get_sd_info_blobs(c) ==
    /\ calls[c].op = "get_sd_info"
    /\ calls[c].pc = "get_blobs_for_stream"
    /\ LET blobs == IF calls[c].include_blobs
                    THEN get_blobs_for_stream(db, calls[c].stream_hash)
                    ELSE <<>>
       IN  raw_info' = format_info(calls[c].stream_info, calls[c].stream_hash, blobs)
    /\ Return(c, [op |-> "descriptor",
                  change |-> [kind |-> "get_sd_info", index |-> 0, other |-> 0,
                              sd_info |-> calls[c].sd_info]])
    /\ UNCHANGED <<db, now>>

NextRoundTrip ==
    \/ \E c \in CallIds, h \in 1..SdHash, len \in Lengths : call_add_known_blob(c, h, len)
    \/ \E c \in CallIds : add_known_blob_status(c) \/ add_known_blob_insert(c)
    \/ \E c \in CallIds : call_save_sd_info(c, SdHash)
    \/ \E c \in CallIds :
           \/ save_sd_info_stream_hash(c)
           \/ save_sd_info_known_blobs(c)
           \/ save_sd_info_insert(c)
    \/ \E c \in CallIds, fk \in ForeignKeys : save_sd_info_store_stream(c, fk)
    \/ \E c \in CallIds : call_get_sd_info(c, TRUE)
    \/ \E c \in CallIds : get_sd_info_stream_info(c) \/ get_sd_info_blobs(c)
    \/ call_validate

SpecRoundTrip == InitRoundTrip /\ [][NextRoundTrip]_vars

\* --------------------------------------------------------- rerun_if_locked
MaxFailures == 2       \* failures that sqlite inflicts on the attempts of one call

\* The Failure an errback receives: err.value's class and err.value.message.
NoFailure == [type |-> "", message |-> ""]
OperationalError(message) == [type |-> "OperationalError", message |-> message]
Failure(r) == IF r.err = "" THEN NoFailure ELSE [type |-> r.err, message |-> "constraint failed"]
DatabaseIsLocked == OperationalError("database is locked")

\* What sqlite may fail an attempt with before the interaction has run.
SqliteFailures == {DatabaseIsLocked, OperationalError("disk I/O error")}

\* A wrapper that hands every failure to the caller.
rerun_never(err) == "return err"

\* A wrapper that reruns after every OperationalError.
rerun_any_operational_error(err) ==
    IF err.type = "OperationalError" THEN "deferLater" ELSE "return err"

\* rerun_if_locked.rerun: the errback of every attempt.
rerun(err) ==
    IF err.type = "OperationalError" /\ err.message = "database is locked"
    THEN "deferLater"
    ELSE "return err"

\* self.db.runInteraction(interaction, *args): here the insert of a blob row.
call_runInteraction(c, blob_hash, length) ==
    /\ calls[c] = Idle
    /\ calls' = [calls EXCEPT ![c] = [op |-> "runInteraction", pc |-> "wrapper",
                                      args |-> <<blob_hash, length>>,
                                      attempts |-> <<>>]]
    /\ last' = Step
    /\ UNCHANGED <<db, now, raw_info>>

\* rerun_if_locked.wrapper: d = f(*args, **kwargs); d.addErrback(rerun, *args, **kwargs)
\* The attempt fails in sqlite, or the interaction runs and the pool commits it
\* or rolls it back.
runInteraction_wrapper(c, fk, failure) ==
    /\ calls[c].op = "runInteraction"
    /\ calls[c].pc = "wrapper"
    /\ failure # NoFailure => Len(calls[c].attempts) < MaxFailures
    /\ LET args == calls[c].args
           r == IF failure = NoFailure
                THEN InsertBlob(db, fk, args[1], args[2], 0, 0, "pending")
                ELSE Raise(db, failure.type)
           err == IF failure = NoFailure THEN Failure(r) ELSE failure
           attempts == Append(calls[c].attempts, [args |-> args, err |-> err])
       IN  /\ db' = runInteraction(db, r)
           /\ IF err # NoFailure /\ rerun(err) = "deferLater"
              THEN /\ calls' = [calls EXCEPT ![c].pc = "deferLater",
                                             ![c].attempts = attempts]
                   /\ last' = Step
              ELSE Return(c, [op |-> "runInteraction", args |-> args, err |-> err,
                              attempts |-> attempts])
    /\ UNCHANGED <<now, raw_info>>

\* task.deferLater(reactor, 0, wrapper, *args, **kwargs): the reactor calls
\* wrapper in a later turn.
runInteraction_deferLater(c) ==
    /\ calls[c].op = "runInteraction"
    /\ calls[c].pc = "deferLater"
    /\ Goto(c, "wrapper")
    /\ UNCHANGED <<db, now, raw_info>>

NextRerun ==
    \/ \E c \in CallIds, blob_hash \in BlobHashes, length \in Lengths :
           call_runInteraction(c, blob_hash, length)
    \/ \E c \in CallIds, fk \in ForeignKeys, failure \in {NoFailure} \cup SqliteFailures :
           runInteraction_wrapper(c, fk, failure)
    \/ \E c \in CallIds : runInteraction_deferLater(c)
    \/ \E blob_hashes \in HashLists, fk \in ForeignKeys : delete_blobs_from_db(blob_hashes, fk)

SpecRerun == Init /\ [][NextRerun]_vars

\* ------------------------------------------------------- concurrent callers
\* Callers that do not wait for each other: one call more in flight than the
\* other specifications allow.
ConcurrentCallIds == 1..(MaxCalls + 1)

InitConcurrent ==
    /\ db = EmptyDb
    /\ calls = [c \in ConcurrentCallIds |-> Idle]
    /\ now = 1
    /\ last = [op |-> "setup"]
    /\ raw_info = NoDescriptor

NextConcurrent ==
    \/ \E c \in ConcurrentCallIds, h \in BlobHashes, len \in Lengths :
           call_add_known_blob(c, h, len)
    \/ \E c \in ConcurrentCallIds, h \in BlobHashes, len \in Lengths, a \in {0, 1} :
           call_add_completed_blob(c, h, len, 0, a)
    \/ \E c \in ConcurrentCallIds :
           \/ add_known_blob_status(c)
           \/ add_known_blob_insert(c)
           \/ add_completed_blob_status(c)
           \/ add_completed_blob_announce(c)
           \/ add_completed_blob_length(c)
    \/ \E blob_hashes \in HashLists, fk \in ForeignKeys : delete_blobs_from_db(blob_hashes, fk)

SpecConcurrent == InitConcurrent /\ [][NextConcurrent]_vars

\* ------------------------------------------------- migration (migrate5to6)
MaxLegacyStreams == 2  \* stream records of the legacy lbryfile_info.db

\* The hashes of legacy stream s: its two data blobs and its descriptor blob.
LegacyStreams == 1..MaxLegacyStreams
HeadBlob(s) == 3 * s - 2
NextBlob(s) == 3 * s - 1
SdBlob(s) == 3 * s
LegacyHashes == 1..(3 * MaxLegacyStreams)

\* SELECT blob_hash, position, iv FROM lbry_file_blobs ... ORDER BY position ASC
LegacyStreamBlobs(s) ==
    << [blob_hash |-> HeadBlob(s), position |-> 0, iv |-> "iv"],
       [blob_hash |-> NextBlob(s), position |-> 1, iv |-> "iv"],
       [blob_hash |-> NULL, position |-> 2, iv |-> "iv"] >>

\* The arguments of _import_file for legacy stream s.
ImportArgs(s) ==
    [rowid |-> s, sd_hash |-> SdBlob(s), stream_hash |-> s, key |-> "key",
     stream_name |-> "6e616d65", suggested_file_name |-> "6e616d65",
     status |-> "stopped", stream_blobs |-> LegacyStreamBlobs(s)]

\* What the claims index holds for the outpoint of a legacy stream: the stream
\* has no outpoint, fetchone() found no claim record, or it found one.
ClaimLookups == {"no outpoint", "no claim record", "claim record"}

\* The files of the blobfiles directory: a descriptor blob is a dict, or bytes
\* that json.loads rejects.
SdKeys == {"stream_name", "blobs", "stream_type", "key", "suggested_file_name", "stream_hash"}
NotJson == [json |-> FALSE]
SdBlobs(s) ==
    << [blob_hash |-> HeadBlob(s), blob_num |-> 0, iv |-> "iv", length |-> 2],
       [blob_hash |-> NextBlob(s), blob_num |-> 1, iv |-> "iv", length |-> 2],
       [blob_num |-> 2, iv |-> "iv", length |-> 0] >>
SdFile(s, blobs) ==
    [stream_name |-> "6e616d65", blobs |-> blobs, stream_type |-> "lbryfile",
     key |-> "key", suggested_file_name |-> "6e616d65", stream_hash |-> s]
SdFiles(s) ==
    { NotJson,
      SdFile(s, SdBlobs(s)),
      DelItem(SdFile(s, SdBlobs(s)), "stream_type"),
      SdFile(s, [SdBlobs(s) EXCEPT ![3] = SetItem(@, "blob_hash", SdBlob(s))]),
      SdFile(s, [SdBlobs(s) EXCEPT ![2] = DelItem(@, "blob_num")]) }
NotOnDisk == [on_disk |-> FALSE]

\* The legacy stores and the blobfiles directory that a migration starts from.
LegacyStores ==
    [blobs : SUBSET LegacyHashes,
     files : {[i \in 1..n |-> i] : n \in 0..MaxLegacyStreams},
     claims : [LegacyStreams -> ClaimLookups],
     blobfiles : {f \in [LegacyStreams -> UNION {SdFiles(s) : s \in LegacyStreams}
                                          \cup {NotOnDisk}] :
                     \A s \in LegacyStreams : f[s] \in SdFiles(s) \cup {NotOnDisk}}]

\* SQLiteStorage.CREATE_TABLES_QUERY: the five tables of the data model with
\* their numbers of columns, foreign keys enforced.
CREATE_TABLES_QUERY ==
    [foreign_keys |-> TRUE,
     columns |-> [blob |-> 5, stream |-> 5, stream_blob |-> 4, claim |-> 9, file |-> 6]]

\* sqlite3 prepares "INSERT INTO table VALUES (?, ...)" with values placeholders.
Prepare(r, table, values) ==
    IF r.err # "" THEN r
    ELSE IF ~Has(CREATE_TABLES_QUERY.columns, table)
            \/ CREATE_TABLES_QUERY.columns[table] # values
    THEN Raise(r.db, "OperationalError")
    ELSE r

\* INSERT OR IGNORE: a row whose primary key is taken is skipped.
InsertOrIgnoreBlob(d, blob_hash, blob_length, next_announce_time, should_announce, status) ==
    IF BlobExists(d, blob_hash) THEN Ok(d)
    ELSE InsertBlob(d, CREATE_TABLES_QUERY.foreign_keys, blob_hash, blob_length,
                    next_announce_time, should_announce, status)

\* insert or replace: the row that holds the primary key is deleted first.
InsertOrReplaceBlob(d, blob_hash, blob_length, next_announce_time, should_announce, status) ==
    InsertBlob([d EXCEPT !.blob = {row \in @ : row.blob_hash # blob_hash}],
               CREATE_TABLES_QUERY.foreign_keys, blob_hash, blob_length,
               next_announce_time, should_announce, status)

InsertOrIgnoreStream(d, stream_hash, sd_hash, stream_key, stream_name, suggested_filename) ==
    IF StreamExists(d, stream_hash) THEN Ok(d)
    ELSE InsertStream(d, CREATE_TABLES_QUERY.foreign_keys, stream_hash, sd_hash,
                      stream_key, stream_name, suggested_filename)

InsertOrIgnoreStreamBlob(d, stream_hash, blob_hash, position, iv) ==
    IF blob_hash # NULL /\ \E row \in d.stream_blob :
                               row.stream_hash = stream_hash /\ row.blob_hash = blob_hash
    THEN Ok(d)
    ELSE InsertStreamBlob(d, CREATE_TABLES_QUERY.foreign_keys, stream_hash, blob_hash,
                          position, iv)

\* for (blob_hash, position, iv) in stream_blobs: INSERT OR IGNORE INTO stream_blob
RECURSIVE ImportStreamBlobs(_, _, _)
ImportStreamBlobs(r, stream_hash, stream_blobs) ==
    IF stream_blobs = <<>> \/ r.err # "" THEN r
    ELSE ImportStreamBlobs(
             InsertOrIgnoreStreamBlob(r.db, stream_hash, Head(stream_blobs).blob_hash,
                                      Head(stream_blobs).position, Head(stream_blobs).iv),
             stream_hash, Tail(stream_blobs))

\* The statements of _import_file that link the file to a content claim.
ImportClaim(r, args, claim) ==
    IF r.err # "" \/ claim = "no outpoint" THEN r
    ELSE IF claim = "no claim record" THEN Raise(r.db, "TypeError")
    ELSE LET inserted == Prepare(r, "claim", 9)
             outpoint == args.rowid
         IN  IF inserted.err # "" THEN inserted
             ELSE Prepare(IF ClaimExists(r.db, outpoint) THEN r
                          ELSE InsertClaim(r.db, CREATE_TABLES_QUERY.foreign_keys,
                                           outpoint, 1, 1),
                          "content_claim", 2)

\* do_migration._import_file: every statement is committed as it ends, the
\* connection's isolation_level being None.
_import_file(d, args, claim) ==
    LET stream == InsertOrIgnoreStream(d, args.stream_hash, args.sd_hash, args.key,
                                       args.stream_name, args.suggested_file_name)
        stream_blobs == ImportStreamBlobs(stream, args.stream_hash, args.stream_blobs)
        file == Prepare(stream_blobs, "file", 5)
    IN  ImportClaim(file, args, claim)

\* do_migration._populate_blobs: INSERT INTO blob VALUES (?, ?, ?, ?, ?)
RECURSIVE _populate_blobs(_, _)
_populate_blobs(r, blob_hashes) ==
    IF blob_hashes = {} \/ r.err # "" THEN r
    ELSE LET blob_hash == CHOOSE h \in blob_hashes : TRUE
         IN  _populate_blobs(InsertBlob(r.db, CREATE_TABLES_QUERY.foreign_keys,
                                        blob_hash, 1, 0, 0, "finished"),
                             blob_hashes \ {blob_hash})

\* sorted(blobs, key=lambda x: x['blob_num'], reverse=True)
RECURSIVE SortedReverse(_)
SortedReverse(blobs) ==
    IF blobs = <<>> THEN <<>>
    ELSE LET i == CHOOSE i \in 1..Len(blobs) :
                      /\ \A j \in 1..Len(blobs) : blobs[j].blob_num <= blobs[i].blob_num
                      /\ \A j \in 1..(i - 1) : blobs[j].blob_num < blobs[i].blob_num
         IN  <<blobs[i]>> \o SortedReverse(SubSeq(blobs, 1, i - 1)
                                           \o SubSeq(blobs, i + 1, Len(blobs)))

\* The checks of verify_sd_blob on one blob of the descriptor.
VerifyBlob(blob, blobs) ==
    IF blob.blob_num = Len(blobs) - 1
    THEN IF Has(blob, "blob_hash") THEN "AssertionError"
         ELSE IF ~Has(blob, "length") THEN "KeyError"
         ELSE IF blob.length # 0 THEN "AssertionError" ELSE ""
    ELSE IF ~Has(blob, "blob_hash") THEN "AssertionError"
         ELSE IF ~Has(blob, "length") THEN "KeyError"
         ELSE IF ~(blob.length > 0) THEN "AssertionError" ELSE ""

RECURSIVE VerifyBlobs(_, _)
VerifyBlobs(sorted, blobs) ==
    IF sorted = <<>> THEN ""
    ELSE IF VerifyBlob(Head(sorted), blobs) # "" THEN VerifyBlob(Head(sorted), blobs)
    ELSE VerifyBlobs(Tail(sorted), blobs)

\* verify_sd_blob(sd_hash, blob_dir): the error it raises, "" when it returns.
verify_sd_blob(sd_file) ==
    IF sd_file = NotJson THEN "ValueError"
    ELSE IF DOMAIN sd_file # SdKeys THEN "AssertionError"
    ELSE IF \E i \in 1..Len(sd_file.blobs) : ~Has(sd_file.blobs[i], "blob_num")
    THEN "KeyError"
    ELSE VerifyBlobs(SortedReverse(sd_file.blobs), sd_file.blobs)

\* The loop of _add_recovered_blobs: i counts the blobs of the reversed order.
RECURSIVE AddRecoveredBlobs(_, _, _, _)
AddRecoveredBlobs(r, sorted, i, blob_infos) ==
    IF sorted = <<>> \/ r.err # "" THEN r
    ELSE AddRecoveredBlobs(
             IF Head(sorted).blob_num < Len(blob_infos) - 1
             THEN InsertOrIgnoreBlob(r.db, Head(sorted).blob_hash, Head(sorted).length,
                                     0, IF i # 0 THEN 0 ELSE 1, "pending")
             ELSE r,
             Tail(sorted), i + 1, blob_infos)

\* do_migration._add_recovered_blobs
_add_recovered_blobs(d, blob_infos, sd_hash, sd_length) ==
    AddRecoveredBlobs(InsertOrReplaceBlob(d, sd_hash, sd_length, 0, 1, "finished"),
                      SortedReverse(blob_infos), 0, blob_infos)

\* db.rollback() on a connection whose isolation_level is None: no transaction
\* is open, every statement that ended is committed.
rollback(before, r, isolation_level) ==
    IF isolation_level = None THEN r.db ELSE before

\* run_operation: commit when fn returned, rollback and raise on IntegrityError,
\* raise any other error.
run_operation(before, r) ==
    IF r.err = "IntegrityError" THEN rollback(before, r, None) ELSE r.db


\* except (OSError, ValueError, TypeError, IOError, AssertionError, sqlite3.IntegrityError)
RecoveryErrors ==
    {"OSError", "ValueError", "TypeError", "IOError", "AssertionError", "IntegrityError"}

LegacyDbFiles == {"blockchainname.db", "lbryfile_info.db", "blobs.db"}

\* The orders in which a set may be listed.
Orders(S) == {order \in [1..Cardinality(S) -> S] :
                 \A i, j \in 1..Cardinality(S) : order[i] = order[j] => i = j}

Remove(seq, x) == SelectSeq(seq, LAMBDA y : y # x)

\* do_migration(db_dir) on some legacy stores, the new database being empty.
InitMigration ==
    /\ db = EmptyDb
    /\ \E legacy \in LegacyStores :
           calls = [op |-> "do_migration", pc |-> "create_tables", legacy |-> legacy,
                    i |-> 1, imported_stream_sds |-> <<>>, damaged_stream_sds |-> <<>>,
                    rerun_args |-> <<>>, damaged_sds_on_disk |-> <<>>, err |-> "",
                    removed |-> {}]
    /\ now = 1
    /\ last = [op |-> "setup"]
    /\ raw_info = NoDescriptor

\* new_db.executescript(SQLiteStorage.CREATE_TABLES_QUERY)
make_db_create_tables ==
    /\ calls.pc = "create_tables"
    /\ calls' = [calls EXCEPT !.pc = "populate_blobs"]
    /\ last' = Step
    /\ UNCHANGED <<db, now, raw_info>>

\* blobs = blobs_db_cursor.execute("SELECT * FROM blobs").fetchall(); _populate_blobs(blobs)
make_db_populate_blobs ==
    /\ calls.pc = "populate_blobs"
    /\ LET r == _populate_blobs(Ok(db), calls.legacy.blobs)
       IN  /\ db' = run_operation(db, r)
           /\ calls' = [calls EXCEPT !.pc = IF r.err = "" THEN "import" ELSE "raised",
                                     !.err = r.err]
    /\ last' = Step
    /\ UNCHANGED <<now, raw_info>>

\* A loop over the legacy lbry files that lists a stream as imported before
\* _import_file has returned.
make_db_import_file_listed_first ==
    /\ calls.pc = "import"
    /\ calls.i <= Len(calls.legacy.files)
    /\ LET s == calls.legacy.files[calls.i]
           args == ImportArgs(s)
           r == _import_file(db, args, calls.legacy.claims[s])
       IN  /\ db' = run_operation(db, r)
           /\ calls' =
                  IF r.err = ""
                  THEN [calls EXCEPT !.i = @ + 1,
                                     !.imported_stream_sds = Append(@, args.sd_hash)]
                  ELSE IF r.err = "IntegrityError"
                  THEN [calls EXCEPT !.i = @ + 1,
                                     !.rerun_args = SetItem(@, args.sd_hash, args),
                                     !.imported_stream_sds = Append(@, args.sd_hash),
                                     !.damaged_stream_sds = Append(@, args.sd_hash)]
                  ELSE [calls EXCEPT !.pc = "raised", !.err = r.err]
           /\ last' = [op |-> "_import_file", stream_hash |-> s, err |-> r.err,
                       before |-> db]
    /\ UNCHANGED <<now, raw_info>>

\* One turn of the loop over the legacy lbry files: try _import_file, and on
\* sqlite3.IntegrityError stash the arguments and list the stream as damaged.
make_db_import_file ==
    /\ calls.pc = "import"
    /\ calls.i <= Len(calls.legacy.files)
    /\ LET s == calls.legacy.files[calls.i]
           args == ImportArgs(s)
           r == _import_file(db, args, calls.legacy.claims[s])
       IN  /\ db' = run_operation(db, r)
           /\ calls' =
                  IF r.err = ""
                  THEN [calls EXCEPT !.i = @ + 1,
                                     !.imported_stream_sds = Append(@, args.sd_hash)]
                  ELSE IF r.err = "IntegrityError"
                  THEN [calls EXCEPT !.i = @ + 1,
                                     !.rerun_args = SetItem(@, args.sd_hash, args),
                                     !.damaged_stream_sds = Append(@, args.sd_hash)]
                  ELSE [calls EXCEPT !.pc = "raised", !.err = r.err]
           /\ last' = [op |-> "_import_file", stream_hash |-> s, err |-> r.err,
                       before |-> db]
    /\ UNCHANGED <<now, raw_info>>

\* damaged_sds_on_disk: the damaged descriptor hashes that os.listdir(blob_dir)
\* names, in the order the set yields them.
make_db_damaged_on_disk ==
    /\ calls.pc = "import"
    /\ calls.i > Len(calls.legacy.files)
    /\ \E order \in Orders({sd \in DOMAIN calls.rerun_args :
                               calls.legacy.blobfiles[calls.rerun_args[sd].stream_hash]
                                   # NotOnDisk}) :
           calls' = [calls EXCEPT !.pc = "recover", !.i = 1,
                                  !.damaged_sds_on_disk = order]
    /\ last' = Step
    /\ UNCHANGED <<db, now, raw_info>>

\* One turn of the loop over damaged_sds_on_disk: verify_sd_blob,
\* _add_recovered_blobs, _import_file(*rerun_args[damaged_sd]).
make_db_recover ==
    /\ calls.pc = "recover"
    /\ calls.i <= Len(calls.damaged_sds_on_disk)
    /\ LET damaged_sd == calls.damaged_sds_on_disk[calls.i]
           args == calls.rerun_args[damaged_sd]
           decoded == calls.legacy.blobfiles[args.stream_hash]
           verified == verify_sd_blob(decoded)
           recovered == IF verified # "" THEN Raise(db, verified)
                        ELSE _add_recovered_blobs(db, decoded.blobs, damaged_sd, 1)
           r == IF recovered.err # "" THEN recovered
                ELSE _import_file(run_operation(db, recovered), args,
                                  calls.legacy.claims[args.stream_hash])
       IN  /\ db' = IF recovered.err # "" THEN run_operation(db, recovered)
                    ELSE run_operation(run_operation(db, recovered), r)
           /\ calls' =
                  IF r.err = ""
                  THEN [calls EXCEPT !.i = @ + 1,
                                     !.damaged_stream_sds = Remove(@, damaged_sd),
                                     !.imported_stream_sds = Append(@, damaged_sd)]
                  ELSE IF r.err \in RecoveryErrors
                  THEN [calls EXCEPT !.i = @ + 1]
                  ELSE [calls EXCEPT !.pc = "raised", !.err = r.err]
           /\ last' = [op |-> "recover", stream_hash |-> args.stream_hash,
                       verified |-> verified, err |-> r.err, before |-> db,
                       recovered |-> recovered.db]
    /\ UNCHANGED <<now, raw_info>>

\* log.info("imported %i lbry files, failed to import %i", ...); _make_db returns.
make_db_report ==
    /\ calls.pc = "recover"
    /\ calls.i > Len(calls.damaged_sds_on_disk)
    /\ calls' = [calls EXCEPT !.pc = "close"]
    /\ last' = [op |-> "report", imported |-> Len(calls.imported_stream_sds),
                damaged |-> Len(calls.damaged_stream_sds)]
    /\ UNCHANGED <<db, now, raw_info>>

\* connection.close(); blobs_db.close(); lbryfile_db.close(); metadata_db.close()
do_migration_close ==
    /\ calls.pc = "close"
    /\ calls' = [calls EXCEPT !.pc = "remove"]
    /\ last' = Step
    /\ UNCHANGED <<db, now, raw_info>>

\* A do_migration that removes the legacy files however _make_db ended.
do_migration_remove_always ==
    /\ calls.pc \in {"remove", "raised"}
    /\ calls.removed = {}
    /\ calls' = [calls EXCEPT !.pc = IF @ = "remove" THEN "done" ELSE @,
                              !.removed = LegacyDbFiles]
    /\ last' = Step
    /\ UNCHANGED <<db, now, raw_info>>

\* os.remove of the three legacy database files.
do_migration_remove ==
    /\ calls.pc = "remove"
    /\ calls' = [calls EXCEPT !.pc = "done", !.removed = LegacyDbFiles]
    /\ last' = Step
    /\ UNCHANGED <<db, now, raw_info>>

NextMigration ==
    \/ make_db_create_tables
    \/ make_db_populate_blobs
    \/ make_db_import_file
    \/ make_db_damaged_on_disk
    \/ make_db_recover
    \/ make_db_report
    \/ do_migration_close
    \/ do_migration_remove

SpecMigration == InitMigration /\ [][NextMigration]_vars

\* do_migration(db_dir) once more, after a run that ended with an exception:
\* the legacy stores are as they were, lbrynet.sqlite holds what the run wrote.
do_migration_again ==
    /\ calls.pc = "raised"
    /\ now < MaxTime
    /\ now' = now + 1
    /\ calls' = [calls EXCEPT !.pc = "create_tables", !.i = 1, !.err = "",
                              !.imported_stream_sds = <<>>, !.damaged_stream_sds = <<>>,
                              !.rerun_args = <<>>, !.damaged_sds_on_disk = <<>>]
    /\ last' = Step
    /\ UNCHANGED <<db, raw_info>>

NextMigrationAgain == NextMigration \/ do_migration_again

SpecMigrationAgain == InitMigration /\ [][NextMigrationAgain]_vars

\* ------------------------------------------------------------ file lookups
\* select status from file where rowid = ?
get_lbry_file_status(d, rowid) ==
    IF \E r \in d.file : r.rowid = rowid
    THEN (CHOOSE r \in d.file : r.rowid = rowid).status
    ELSE None

\* select rowid from file where stream_hash=?
get_rowid_for_stream_hash(d, stream_hash) ==
    IF \E r \in d.file : r.stream_hash = stream_hash
    THEN (CHOOSE r \in d.file : r.stream_hash = stream_hash).rowid
    ELSE None

\* ------------------------------------------------------ save_claim, get_claim
NumClaimOutpoints == 3
NumClaimIds == 2
MaxHeight == 2
ClaimOutpoints == 1..NumClaimOutpoints
ClaimIds == 1..NumClaimIds
Heights == 1..MaxHeight

\* _claim_response(*claim_info): the columns of the row the model keeps; the
\* value of the claim is left to ClaimDict.deserialize.
_claim_response(row) ==
    [err |-> "", outpoint |-> row.claim_outpoint, claim_id |-> row.claim_id, height |-> row.height]

\* _get_claim answering a query ordered by height instead of rowid.
_get_claim_highest(d, claim_id) ==
    LET rows == {r \in d.claim : r.claim_id = claim_id}
    IN  IF rows = {}
        THEN [err |-> "TypeError", outpoint |-> NULL, claim_id |-> NULL, height |-> NULL]
        ELSE _claim_response(CHOOSE r \in rows : \A o \in rows :
                                 \/ o.height < r.height
                                 \/ o.height = r.height /\ o.rowid <= r.rowid)

\* select * from claim where claim_id=? order by rowid desc, fetchone(): the
\* first row of the answer, or None, which _claim_response(*None) cannot unpack.
_get_claim(d, claim_id) ==
    LET rows == {r \in d.claim : r.claim_id = claim_id}
    IN  IF rows = {}
        THEN [err |-> "TypeError", outpoint |-> NULL, claim_id |-> NULL, height |-> NULL]
        ELSE _claim_response(CHOOSE r \in rows : \A o \in rows : o.rowid <= r.rowid)

\* calls.saved is the list of the claims whose save_claim succeeded, in the
\* order of the calls.
InitClaims ==
    /\ db = EmptyDb
    /\ calls = [saved |-> <<>>]
    /\ now = 1
    /\ last = [op |-> "setup"]
    /\ raw_info = NoDescriptor

call_save_claim(outpoint, claim_id, height, supports, fk) ==
    LET r == _save_claim(db, fk, outpoint, claim_id, height, supports)
    IN /\ db' = runInteraction(db, r)
       /\ calls' = IF r.err = ""
                   THEN [calls EXCEPT !.saved = Append(@, [outpoint |-> outpoint, claim_id |-> claim_id, height |-> height])]
                   ELSE calls
       /\ last' = [op |-> "save_claim", outcome |-> Outcome(r)]
       /\ UNCHANGED <<now, raw_info>>

call_get_claim(claim_id) ==
    /\ last' = [op |-> "get_claim", claim_id |-> claim_id, result |-> _get_claim(db, claim_id)]
    /\ UNCHANGED <<db, calls, now, raw_info>>

NextClaims ==
    \/ \E outpoint \in ClaimOutpoints, claim_id \in ClaimIds, height \in Heights, supports \in BOOLEAN, fk \in ForeignKeys :
           call_save_claim(outpoint, claim_id, height, supports, fk)
    \/ \E claim_id \in ClaimIds : call_get_claim(claim_id)

SpecClaims == InitClaims /\ [][NextClaims]_vars

\* ------------------------------------------------- streams that share blobs
NumSharingStreams == 2
SharingStreams == 1..NumSharingStreams

MaxRowid == 2          \* greatest rowid given to a stream_blob or file row

\* The chains of the streams: one blob and no terminator, or nothing yet.
SharingChains == {chain \in Chains : Len(chain) <= 1 /\ \A i \in 1..Len(chain) : chain[i].blob_hash # NULL}

\* Two streams stored over the same blobs, their files, and delete_stream.
NextSharing ==
    \/ \E c \in CallIds, h \in BlobHashes : call_add_known_blob(c, h, 1)
    \/ \E c \in CallIds, s \in SharingStreams : call_delete_stream(c, s)
    \/ \E c \in CallIds : CallStep(c)
    \/ \E s \in SharingStreams, sd \in BlobHashes, chain \in SharingChains, fk \in ForeignKeys :
           /\ NextRowid(db.stream_blob) <= MaxRowid
           /\ store_stream(s, sd, "6e616d65", "key", "6e616d65", chain, fk)
    \/ \E s \in SharingStreams, o \in Outpoints, fk \in ForeignKeys :
           /\ NextRowid(db.file) <= MaxRowid
           /\ save_lbry_file(s, o, "6e616d65", "stopped", fk)
    \/ \E o \in Outpoints, fk \in ForeignKeys : save_claim(o, 1, 1, FALSE, fk)

SpecSharing == Init /\ [][NextSharing]_vars

\* ------------------------------------------- lock errors inside an interaction
\* The interactions handed to runInteraction, with their arguments.
Interactions ==
    [f : {"add_known_blob"}, blob_hash : BlobHashes, length : Lengths]
    \cup [f : {"_add_stream_blobs"}, stream_hash : StreamHashes, blob_infos : Chains \ {<<>>}]
    \cup [f : {"get_and_update"}, announce_head_blobs_only : BOOLEAN, hash_queue_size : QueueSizes]

\* The number of statements of an interaction that write.
Writes(args) == IF args.f = "_add_stream_blobs" THEN Len(args.blob_infos) ELSE 1

\* The interaction up to and including its first `written` writing statements,
\* inside the transaction the pool opened for it.
Statements(d, fk, args, written, timestamp, time_time) ==
    IF written = 0 THEN Ok(d)
    ELSE IF args.f = "add_known_blob"
    THEN InsertBlob(d, fk, args.blob_hash, args.length, 0, 0, "pending")
    ELSE IF args.f = "_add_stream_blobs"
    THEN _add_stream_blobs(d, fk, args.stream_hash, SubSeq(args.blob_infos, 1, written))
    ELSE LET r == get_and_update(d, args.announce_head_blobs_only, args.hash_queue_size,
                                 timestamp, time_time)
         IN  [db |-> r.db, err |-> r.err]

\* self.db.runInteraction(interaction, *args); before is the database the call
\* has to act on: the one it was made on, or the one a call that ended since
\* has left.
call_interaction(c, args) ==
    /\ calls[c] = Idle
    /\ args.f = "_add_stream_blobs" =>
           Cardinality(db.stream_blob) + Len(args.blob_infos) <= MaxStreamBlobs
    /\ calls' = [calls EXCEPT ![c] = [op |-> "interaction", pc |-> "wrapper", args |-> args,
                                      failures |-> 0, before |-> db]]
    /\ last' = Step
    /\ UNCHANGED <<db, now, raw_info>>

\* rerun_if_locked.wrapper around adbapi's runInteraction: sqlite may answer any
\* statement that writes, and the commit, with 'database is locked'; the pool
\* rolls the transaction back on every error and commits otherwise.
interaction_wrapper(c, fk, locked, written, time_time) ==
    /\ calls[c].op = "interaction"
    /\ calls[c].pc = "wrapper"
    /\ locked => calls[c].failures < MaxFailures
    /\ written \in 0..Writes(calls[c].args)
    /\ ~locked => written = Writes(calls[c].args)
    /\ time_time \in now..MaxTime
    /\ LET args == calls[c].args
           ran == Statements(db, fk, args, written, now, time_time)
           r == IF locked /\ ran.err = "" THEN Raise(ran.db, "OperationalError") ELSE ran
           err == IF locked /\ ran.err = "" THEN DatabaseIsLocked ELSE Failure(ran)
           others == [o \in CallIds |->
                         IF calls[o] # Idle /\ calls[o].op = "interaction"
                         THEN [calls[o] EXCEPT !.before = runInteraction(db, r)]
                         ELSE calls[o]]
       IN  /\ db' = runInteraction(db, r)
           /\ IF err # NoFailure /\ rerun(err) = "deferLater"
              THEN /\ calls' = [calls EXCEPT ![c].pc = "deferLater", ![c].failures = @ + 1]
                   /\ last' = Step
              ELSE /\ calls' = [others EXCEPT ![c] = Idle]
                   /\ last' = [op |-> "interaction", args |-> args, err |-> err,
                               failures |-> calls[c].failures]
    /\ now' = time_time
    /\ UNCHANGED raw_info

\* task.deferLater(reactor, 0, wrapper, *args, **kwargs)
interaction_deferLater(c) ==
    /\ calls[c].op = "interaction"
    /\ calls[c].pc = "deferLater"
    /\ Goto(c, "wrapper")
    /\ UNCHANGED <<db, now, raw_info>>

NextLocked ==
    \/ \E c \in CallIds, args \in Interactions : call_interaction(c, args)
    \/ \E c \in CallIds, fk \in ForeignKeys, locked \in BOOLEAN, written \in 0..MaxChain, time_time \in 1..MaxTime :
           interaction_wrapper(c, fk, locked, written, time_time)
    \/ \E c \in CallIds : interaction_deferLater(c)

SpecLocked == Init /\ [][NextLocked]_vars

\* ------------------------------------------------ a contending transaction
MaxRetries == 3        \* the count of reruns is kept up to this number

\* The interactions issued while another transaction contends for the file.
ContendedInteractions == {args \in Interactions : args.f # "_add_stream_blobs"}

NoInteraction == [f |-> "none"]

\* calls holds the one call in flight and who holds the write lock of the
\* database file: a transaction of another connection, or nobody.
InitContended ==
    /\ db = EmptyDb
    /\ calls = [lock |-> "free", op |-> "idle", pc |-> "", args |-> NoInteraction,
                reruns |-> 0]
    /\ now = 1
    /\ last = [op |-> "setup"]
    /\ raw_info = NoDescriptor

\* The contending transaction takes the lock; now counts the transactions.
contender_begin ==
    /\ calls.lock = "free"
    /\ now < MaxTime
    /\ now' = now + 1
    /\ calls' = [calls EXCEPT !.lock = "held"]
    /\ last' = Step
    /\ UNCHANGED <<db, raw_info>>

\* The contending transaction ends and releases the lock.
contender_commit ==
    /\ calls.lock = "held"
    /\ calls' = [calls EXCEPT !.lock = "free"]
    /\ last' = Step
    /\ UNCHANGED <<db, now, raw_info>>

\* self.db.runInteraction(interaction, *args)
contended_call(args) ==
    /\ calls.op = "idle"
    /\ calls' = [calls EXCEPT !.op = "runInteraction", !.pc = "wrapper", !.args = args,
                              !.reruns = 0]
    /\ last' = Step
    /\ UNCHANGED <<db, now, raw_info>>

\* rerun_if_locked.wrapper: while the lock is held the attempt fails with
\* 'database is locked'; otherwise the interaction runs.  rerun decides, for
\* every failure and whatever the number of reruns so far.
contended_wrapper(fk) ==
    /\ calls.op = "runInteraction"
    /\ calls.pc = "wrapper"
    /\ LET args == calls.args
           r == IF calls.lock = "held" THEN Raise(db, "OperationalError")
                ELSE Statements(db, fk, args, Writes(args), now, now)
           err == IF calls.lock = "held" THEN DatabaseIsLocked ELSE Failure(r)
       IN  /\ db' = runInteraction(db, r)
           /\ IF err # NoFailure /\ rerun(err) = "deferLater"
              THEN /\ calls' = [calls EXCEPT !.pc = "deferLater",
                                             !.reruns = IF @ < MaxRetries THEN @ + 1 ELSE @]
                   /\ last' = Step
              ELSE /\ calls' = [calls EXCEPT !.op = "idle", !.pc = "", !.args = NoInteraction]
                   /\ last' = [op |-> "runInteraction", args |-> args, err |-> err,
                               reruns |-> calls.reruns]
    /\ UNCHANGED <<now, raw_info>>

\* task.deferLater(reactor, 0, wrapper, *args, **kwargs): the reactor calls
\* wrapper in its next turn.
contended_deferLater ==
    /\ calls.op = "runInteraction"
    /\ calls.pc = "deferLater"
    /\ calls' = [calls EXCEPT !.pc = "wrapper"]
    /\ last' = Step
    /\ UNCHANGED <<db, now, raw_info>>

NextContended ==
    \/ contender_begin
    \/ contender_commit
    \/ \E args \in ContendedInteractions : contended_call(args)
    \/ \E fk \in ForeignKeys : contended_wrapper(fk)
    \/ contended_deferLater

\* The pool's thread runs every attempt handed to it, the reactor runs every
\* delayed call, and the contending transaction ends.
SpecContended ==
    /\ InitContended
    /\ [][NextContended]_vars
    /\ WF_vars(\E fk \in ForeignKeys : contended_wrapper(fk))
    /\ WF_vars(contended_deferLater)
    /\ WF_vars(contender_commit)

\* ------------------------------------------------------------------ claims
\* Every step writes last: last'.op names the call that ended in the step, and
\* is "step" for a step inside a call.
HashesOf(blob_infos) == {blob_infos[i].blob_hash : i \in 1..Len(blob_infos)}
Elements(seq) == {seq[i] : i \in 1..Len(seq)}

\* C1: when the delete interaction of delete_stream(s) commits, no stream row,
\* no stream_blob row and no file row of s is left, no blob row is left for the
\* descriptor hash nor for any blob hash of the chain that delete_stream looked
\* up for s, and get_all_streams() does not contain s.
C1_DeleteStreamLeavesNothing ==
    [][(last'.op = "delete_stream" /\ last'.outcome = "ok") =>
       \A c \in CallIds, fk \in ForeignKeys :
          delete_stream_delete(c, fk) =>
              LET s == calls[c].stream_hash
              IN /\ ~StreamExists(db', s)
                 /\ \A r \in db'.stream_blob : r.stream_hash # s
                 /\ \A r \in db'.file : r.stream_hash # s
                 /\ ~BlobExists(db', calls[c].sd_hash)
                 /\ \A h \in Elements(calls[c].blob_hashes) : ~BlobExists(db', h)
                 /\ s \notin get_all_streams(db')]_vars

\* A delete_stream that found a descriptor blob and a chain of one blob and the
\* terminator, and removed the stream row, its file row, the two chain rows and
\* the two blob rows.
C1_Witness ==
    /\ last.op = "delete_stream"
    /\ last.outcome = "ok"
    /\ last.sd_hash # NULL
    /\ Len(last.blob_hashes) = 2
    /\ last.blob_hashes[1] \notin {NULL, last.sd_hash}
    /\ last.blob_hashes[2] = NULL
    /\ last.changes = [blob |-> 2, stream |-> 1, stream_blob |-> 2, file |-> 1]
    /\ db.blob = {}

\* C2: referential integrity holds in every reachable state: every stream_blob
\* row names an existing stream and, when its blob_hash is not NULL, an
\* existing blob; every stream row's sd_hash names an existing blob; every file
\* row names an existing stream.
C2_ReferentialIntegrity ==
    /\ \A r \in db.stream_blob :
           /\ StreamExists(db, r.stream_hash)
           /\ r.blob_hash # NULL => BlobExists(db, r.blob_hash)
    /\ \A r \in db.stream : BlobExists(db, r.sd_hash)
    /\ \A r \in db.file : StreamExists(db, r.stream_hash)

\* The Stream row (stream_hash, sd_hash) and the chain would violate a
\* uniqueness or a descriptor constraint: the cases C3 names.
C3_MustFail(d, stream_hash, sd_hash, chain) ==
    \/ StreamExists(d, stream_hash)
    \/ \E i \in 1..Len(chain) : \E r \in d.stream_blob :
           r.stream_hash = stream_hash /\ r.blob_hash = chain[i].blob_hash
    \/ \E i, j \in 1..Len(chain) : i # j /\ chain[i].blob_hash = chain[j].blob_hash
    \/ ~BlobExists(d, sd_hash)

\* C3: store_stream fails with an integrity error whenever a stream row with
\* the same stream_hash exists, or a (stream_hash, blob_hash) pair of the chain
\* exists already or is repeated in the chain, or sd_hash is not the hash of a
\* blob row; it succeeds otherwise.
C3_StoreStreamFailsExactlyWhen ==
    [][last'.op = "store_stream" =>
       \A s \in StreamHashes, sd \in BlobHashes, chain \in Chains, fk \in ForeignKeys :
          store_stream(s, sd, "6e616d65", "key", "6e616d65", chain, fk) =>
              (last'.outcome = "IntegrityError" <=> C3_MustFail(db, s, sd, chain))]_vars

\* C4: store_stream is all-or-nothing: a store_stream that fails, at the stream
\* row or at any chain entry, leaves all five tables as they were.
C4_StoreStreamAllOrNothing ==
    [][(last'.op = "store_stream" /\ last'.outcome # "ok") => db' = db]_vars

\* A store_stream that raised at its second chain entry, after it had written
\* the stream row and the first chain row.
C4_Witness ==
    /\ last.op = "store_stream"
    /\ last.outcome = "IntegrityError"
    /\ last.written.stream = 1
    /\ last.written.stream_blob = 1
    /\ last.changes = [blob |-> 0, stream |-> 0, stream_blob |-> 0, file |-> 0]

BlobRow(d, h) == CHOOSE r \in d.blob : r.blob_hash = h

\* C5: add_known_blob is idempotent.  A call that finds a row for its hash
\* returns that row's status without raising and changes nothing: no second
\* row, and status, length and announce fields as they were.  A call that finds
\* no row goes on to insert, and its insert on the absent hash adds exactly one
\* row, pending, with the given length, and returns pending.
C5_AddKnownBlobIdempotent ==
    [][\A c \in CallIds :
          (calls[c].op = "add_known_blob" /\ calls'[c] # calls[c]) =>
              LET h == calls[c].blob_hash
              IN CASE calls[c].pc = "get_blob_status" /\ BlobExists(db, h) ->
                          /\ db' = db
                          /\ calls'[c] = Idle
                          /\ last' = [op |-> "add_known_blob", blob_hash |-> h,
                                      outcome |-> "ok",
                                      status |-> BlobRow(db, h).status,
                                      inserted |-> FALSE]
                   [] calls[c].pc = "get_blob_status" /\ ~BlobExists(db, h) ->
                          /\ db' = db
                          /\ calls'[c] = [calls[c] EXCEPT !.pc = "insert"]
                   [] calls[c].pc = "insert" /\ ~BlobExists(db, h) ->
                          /\ db' = [db EXCEPT !.blob = @ \cup
                                 {[blob_hash |-> h, blob_length |-> calls[c].length,
                                   next_announce_time |-> 0, should_announce |-> 0,
                                   status |-> "pending"]}]
                          /\ calls'[c] = Idle
                          /\ last' = [op |-> "add_known_blob", blob_hash |-> h,
                                      outcome |-> "ok", status |-> "pending",
                                      inserted |-> TRUE]
                   [] OTHER -> TRUE]_vars

\* A second add_known_blob, with another length, on a finished blob: it returned
\* finished and the row kept its length.
C5_Witness ==
    /\ last.op = "add_known_blob"
    /\ last.outcome = "ok"
    /\ last.status = "finished"
    /\ ~last.inserted
    /\ \E r \in db.blob : /\ r.blob_hash = last.blob_hash
                          /\ r.status = "finished"
                          /\ r.blob_length = 1
                          /\ r.should_announce = 1
    /\ calls = [c \in CallIds |-> Idle]

\* The hashes the claim expects from get_blobs_to_announce at time timestamp.
C6_Expected(d, announce_head_blobs_only, timestamp) ==
    {r.blob_hash : r \in {r \in d.blob :
        /\ r.next_announce_time < timestamp
        /\ announce_head_blobs_only => (r.should_announce = 1 /\ r.status = "finished")}}

\* C6: get_blobs_to_announce returns exactly the hashes whose next_announce_time
\* is less than the current time, and in head-only mode exactly those of them
\* that have should_announce = 1 and status finished.
C6_AnnounceReturnsExactlyDue ==
    [][last'.op = "get_blobs_to_announce" =>
          Elements(last'.blobs) = C6_Expected(db, last'.announce_head_blobs_only, now)]_vars

\* C7: no hash appears twice in one result of get_blobs_to_announce; after the
\* call every returned row has a next_announce_time greater than the time the
\* call used as now, and a call at any later instant of the clock up to that new
\* time returns none of them.
C7_AnnounceOncePerInterval ==
    [][last'.op = "get_blobs_to_announce" =>
          /\ \A i, j \in 1..Len(last'.blobs) : i # j => last'.blobs[i] # last'.blobs[j]
          /\ \A h \in Elements(last'.blobs) :
                /\ BlobExists(db', h)
                /\ \A r \in db'.blob : r.blob_hash = h =>
                      /\ r.next_announce_time > now
                      /\ r.next_announce_time > now'
                      /\ \A t \in now'..MaxTime, head \in BOOLEAN :
                            r \notin SelectToAnnounce(db', head, t)]_vars

\* A call that returned two hashes.
C7_Witness ==
    /\ last.op = "get_blobs_to_announce"
    /\ Len(last.blobs) = 2
    /\ \A r \in db.blob : r.next_announce_time > now

\* The reannounce interval for a queue of queue_size hashes.
C8_Reannounce(queue_size) ==
    IF queue_size * 5 > 3600 THEN queue_size * 5 ELSE 3600

\* C8: the next announce time get_blobs_to_announce writes is the time read by
\* get_next_announce_time plus max(min_reannounce_time, queue_size *
\* single_announce_duration), queue_size being hash_queue_size() plus the number
\* of hashes returned; it is never less than the call's timestamp plus
\* min_reannounce_time.
C8_NextAnnounceTime ==
    [][last'.op = "get_blobs_to_announce" =>
       \A head \in BOOLEAN, q \in QueueSizes, t \in 1..MaxTime :
          get_blobs_to_announce(head, q, t) =>
              \A r \in db.blob : r.next_announce_time < now =>
                  \E w \in db'.blob :
                      /\ w.blob_hash = r.blob_hash
                      /\ w.next_announce_time = t + C8_Reannounce(q + Len(last'.blobs))
                      /\ w.next_announce_time >= now + 3600]_vars

\* A call that returned one hash while 1000 were queued: the row's next
\* announce time is 5 * 1001 seconds ahead.
C8_Witness ==
    /\ last.op = "get_blobs_to_announce"
    /\ Len(last.blobs) = 1
    /\ \E r \in db.blob : /\ r.blob_hash = last.blobs[1]
                          /\ r.next_announce_time = now + 5005


\* The reasons validate gives.
BadTerminator == "Does not end with a zero-length blob."
HashMismatch == "Stream hash does not match stream metadata"
ZeroLength(blobs) == {i \in 1..Len(blobs) : blobs[i].length = 0}

\* C9: validate rejects with the terminator reason every chain whose number of
\* zero-length entries is not exactly one or whose zero-length entry is not
\* the entry with the highest blob_num, and it rejects every chain in which an
\* entry before the last has length 0 or has no blob_hash.
C9_ValidateRejectsBadChains ==
    (last.op = "validate" /\ last.change = NoChange) =>
        LET blobs == raw_info.blobs
        IN  /\ (\/ Cardinality(ZeroLength(blobs)) # 1
                \/ \E i \in ZeroLength(blobs), j \in 1..Len(blobs) :
                       blobs[j].blob_num > blobs[i].blob_num)
                   => (/\ last.error = "InvalidStreamDescriptorError"
                       /\ last.reason = BadTerminator)
            /\ (\E i \in 1..Len(blobs) - 1 :
                    blobs[i].length = 0 \/ ~Has(blobs[i], "blob_hash"))
                   => last.error # ""

\* The two-level hash as the descriptor format defines it.
C10_H(data) == <<"<">> \o data \o <<">">>
C10_D(b) ==
    <<"[">> \o (IF b.length = 0 THEN <<>> ELSE b.blob_hash) \o str(b.blob_num)
            \o b.iv \o str(b.length) \o <<"]">>
RECURSIVE C10_Chain(_)
C10_Chain(blobs) == IF blobs = <<>> THEN <<>> ELSE C10_D(Head(blobs)) \o C10_Chain(Tail(blobs))
C10_StreamHash(raw) ==
    C10_H(raw.stream_name \o raw.key \o raw.suggested_file_name
          \o <<"[">> \o C10_Chain(raw.blobs) \o <<"]">>)

\* C10 as stated: an accepted descriptor claims the two-level hash of its
\* contents, and every descriptor obtained from an accepted one by one change
\* fails with the hash-mismatch reason.
C10_AnyChangeIsAHashMismatch ==
    last.op = "validate" =>
        /\ last.error = "" => raw_info.stream_hash = C10_StreamHash(raw_info)
        /\ last.change # NoChange =>
               (last.error = "InvalidStreamDescriptorError" /\ last.reason = HashMismatch)

\* A change that alters what is hashed: not the blob_hash of a zero-length
\* entry, and not the exchange of two entries that hash alike.
C10_Hashed(change, raw) ==
    /\ change.kind # "missing"
    /\ change.kind = "blob_hash" => raw.blobs[change.index].length # 0
    /\ change.kind = "order" =>
           C10_D(raw.blobs[change.index]) # C10_D(raw.blobs[change.other])

\* A descriptor that passes every check made before the hash comparison.
C10_ReachesComparison(raw) ==
    /\ \A i \in 1..Len(raw.suggested_file_name) : IsHex(raw.suggested_file_name[i])
    /\ \A i \in 1..Len(raw.blobs) :
           raw.blobs[i].length # 0 => Has(raw.blobs[i], "blob_hash")
    /\ raw.blobs[Len(raw.blobs)].length = 0

\* C10, amended: an accepted descriptor claims the two-level hash of its
\* contents and ends with a zero-length entry; a descriptor obtained from an
\* accepted one by one change that alters what is hashed is not accepted, and
\* it fails with the hash-mismatch reason exactly when it passes the checks
\* made before the comparison (hex file name, blob_hash present on every entry
\* of non-zero length, zero-length last entry).
C10_HashedChangeIsRejected ==
    last.op = "validate" =>
        /\ last.error = "" =>
               /\ raw_info.stream_hash = C10_StreamHash(raw_info)
               /\ raw_info.blobs[Len(raw_info.blobs)].length = 0
        /\ (last.change # NoChange /\ C10_Hashed(last.change, raw_info)) =>
               /\ last.error # ""
               /\ (last.error = "InvalidStreamDescriptorError" /\ last.reason = HashMismatch)
                      <=> C10_ReachesComparison(raw_info)

C10_Witness ==
    /\ last.op = "validate"
    /\ last.change = [kind |-> "iv", index |-> 1, other |-> 0]
    /\ Len(raw_info.blobs) = 2
    /\ raw_info.blobs[1].length # 0
    /\ raw_info.blobs[2].length = 0
    /\ raw_info.stream_hash # C10_StreamHash(raw_info)
    /\ last.error = "InvalidStreamDescriptorError"
    /\ last.reason = HashMismatch

\* C11: a descriptor that validate does not accept makes it fail with
\* InvalidStreamDescriptorError and with no other kind of error.
C11_OnlyInvalidStreamDescriptorError ==
    (last.op = "validate" /\ last.error # "") =>
        last.error = "InvalidStreamDescriptorError"

\* C12: the descriptor that get_sd_info rebuilds for a stream that save_sd_info
\* stored from an accepted descriptor has the same header fields, the same
\* stream_hash and the same blob entries in the same order, and validate
\* accepts it.
C12_RoundTrip ==
    (last.op = "validate" /\ last.change.kind = "get_sd_info") =>
        /\ raw_info = last.change.sd_info
        /\ last.error = ""

\* Every attempt ran with args, and every attempt but the last was locked out.
C13_Attempts(attempts, args) ==
    /\ \A i \in 1..Len(attempts) : attempts[i].args = args
    /\ \A i \in 1..Len(attempts) - 1 : attempts[i].err = DatabaseIsLocked

\* C13: a 'database is locked' failure never reaches the caller of
\* runInteraction: the attempt is made again with the same arguments, and the
\* caller gets the result of the first attempt that did not fail with a lock
\* error, whatever the number of lock failures before it.
C13_LockedIsRerun ==
    /\ \A c \in CallIds : calls[c].op = "runInteraction" =>
           /\ C13_Attempts(calls[c].attempts, calls[c].args)
           /\ calls[c].pc = "deferLater" =>
                  calls[c].attempts[Len(calls[c].attempts)].err = DatabaseIsLocked
    /\ last.op = "runInteraction" =>
           /\ last.err # DatabaseIsLocked
           /\ C13_Attempts(last.attempts, last.args)
           /\ last.attempts[Len(last.attempts)].err = last.err
           /\ last.err = NoFailure =>
                  \E row \in db.blob : /\ row.blob_hash = last.args[1]
                                       /\ row.blob_length = last.args[2]

C13_Witness ==
    /\ last.op = "runInteraction"
    /\ Len(last.attempts) >= 3
    /\ last.err = NoFailure

C14_NotLocked(err) == err # NoFailure /\ err # DatabaseIsLocked

\* C14: an attempt that fails with anything but a lock error is the last
\* attempt of its call, first attempt or retry, and its error is what the
\* caller gets.
C14_OtherErrorsReachTheCaller ==
    /\ \A c \in CallIds : calls[c].op = "runInteraction" =>
           \A i \in 1..Len(calls[c].attempts) : ~C14_NotLocked(calls[c].attempts[i].err)
    /\ last.op = "runInteraction" =>
           \A i \in 1..Len(last.attempts) :
               C14_NotLocked(last.attempts[i].err) =>
                   i = Len(last.attempts) /\ last.err = last.attempts[i].err

C14_Witness ==
    /\ last.op = "runInteraction"
    /\ Len(last.attempts) >= 2
    /\ last.attempts[1].err = DatabaseIsLocked
    /\ last.err.type = "IntegrityError"

\* The blob row that an add_completed_blob with the arguments of call leaves
\* when nothing runs between its interactions.
C15_Completed(d, call) ==
    \E row \in d.blob : /\ row.blob_hash = call.blob_hash
                        /\ row.status = "finished"
                        /\ row.blob_length = call.length
                        /\ row.next_announce_time = call.next_announce_time
                        /\ row.should_announce = call.should_announce

\* C15: concurrent calls behave as if each ran alone: an add_known_blob
\* returns a status and never an integrity error, and an add_completed_blob
\* returns with the blob row present, finished, with the length and the
\* announce fields it was given.
C15_CallsAreAtomic ==
    [][\A c \in ConcurrentCallIds :
          (calls[c] # Idle /\ calls'[c] = Idle) =>
              /\ last'.outcome = "ok"
              /\ calls[c].op = "add_completed_blob" => C15_Completed(db', calls[c])]_vars

\* A legacy stream all of whose blobs are rows of the legacy blob store, and
\* one whose first import fails with an integrity error.
C16_Clean(legacy, s) == {HeadBlob(s), NextBlob(s), SdBlob(s)} \subseteq legacy.blobs
C16_Damaged(legacy, s) == ~C16_Clean(legacy, s)
C16_Ended == calls.pc \in {"done", "raised"}

\* The rows of a stream that was imported.
C16_Imported(d, s) ==
    /\ \E row \in d.stream : row.stream_hash = s /\ row.sd_hash = SdBlob(s)
    /\ \A i \in 1..Len(LegacyStreamBlobs(s)) :
           \E row \in d.stream_blob : /\ row.stream_hash = s
                                      /\ row.blob_hash = LegacyStreamBlobs(s)[i].blob_hash
                                      /\ row.position = LegacyStreamBlobs(s)[i].position
    /\ \E row \in d.file : row.stream_hash = s

\* C16: a migration of one clean and one damaged legacy stream ends having
\* reported 2 imported and 0 damaged, both streams in the stream table, when a
\* valid descriptor of the damaged stream is on disk, and 1 imported and 1
\* damaged, the clean stream's rows in place, when none is on disk.
C16_MigrationScenario ==
    \A clean, damaged \in LegacyStreams :
        (/\ C16_Ended
         /\ Len(calls.legacy.files) = 2
         /\ C16_Clean(calls.legacy, clean)
         /\ C16_Damaged(calls.legacy, damaged)) =>
            /\ calls.pc = "done"
            /\ calls.legacy.blobfiles[damaged] = SdFile(damaged, SdBlobs(damaged)) =>
                   /\ Len(calls.imported_stream_sds) = 2
                   /\ Len(calls.damaged_stream_sds) = 0
                   /\ StreamExists(db, clean) /\ StreamExists(db, damaged)
            /\ calls.legacy.blobfiles[damaged] = NotOnDisk =>
                   /\ Len(calls.imported_stream_sds) = 1
                   /\ Len(calls.damaged_stream_sds) = 1
                   /\ C16_Imported(db, clean)

\* C17: do_migration does not end with an exception, whatever the legacy
\* stores and the descriptor directory hold: every legacy stream ends up
\* imported or damaged.
C17_NeverAborts ==
    /\ calls.pc # "raised"
    /\ calls.pc = "done" =>
           \A i \in 1..Len(calls.legacy.files) :
               \E j \in 1..Len(calls.imported_stream_sds \o calls.damaged_stream_sds) :
                   (calls.imported_stream_sds \o calls.damaged_stream_sds)[j]
                       = SdBlob(calls.legacy.files[i])

\* C18: an _import_file that fails with an integrity error leaves the new
\* database as it was when the call began, in the first pass and in the retry
\* that follows _add_recovered_blobs.
C18_ImportIsAtomic ==
    /\ (last.op = "_import_file" /\ last.err = "IntegrityError") => db = last.before
    /\ (last.op = "recover" /\ last.verified = "" /\ last.err = "IntegrityError") =>
           db = last.recovered

\* C19: the legacy database files are removed only when every import and
\* recovery has run and the connections are closed, and never in a run that
\* ends with an exception.
C19_RemoveComesLast ==
    /\ calls.removed # {} =>
           /\ calls.pc = "done"
           /\ calls.err = ""
           /\ calls.i > Len(calls.damaged_sds_on_disk)
           /\ Len(calls.imported_stream_sds) + Len(calls.damaged_stream_sds)
                  = Len(calls.legacy.files)
    /\ calls.pc = "raised" => calls.removed = {}

C19_Witness ==
    /\ calls.pc = "done"
    /\ calls.removed = LegacyDbFiles
    /\ Len(calls.legacy.files) = 2
    /\ Len(calls.damaged_sds_on_disk) = 2
    /\ db.stream # {}

\* C20: recovering a stream from its descriptor gives every blob of the
\* descriptor but the terminator a blob row: a new row is pending, with
\* should_announce 1 for the head blob and 0 for the others, the head blob's
\* row has should_announce 1, and a row that existed keeps its status and length.
C20_RecoveredBlobs ==
    (last.op = "recover" /\ last.verified = "") =>
        LET blobs == calls.legacy.blobfiles[last.stream_hash].blobs
        IN  \A i \in 1..Len(blobs) : Has(blobs[i], "blob_hash") =>
                \E row \in last.recovered.blob :
                    /\ row.blob_hash = blobs[i].blob_hash
                    /\ blobs[i].blob_num = 0 => row.should_announce = 1
                    /\ IF BlobExists(last.before, row.blob_hash)
                       THEN \E old \in last.before.blob :
                                /\ old.blob_hash = row.blob_hash
                                /\ old.status = row.status
                                /\ old.blob_length = row.blob_length
                       ELSE /\ row.status = "pending"
                            /\ row.blob_length = blobs[i].length
                            /\ row.should_announce = IF blobs[i].blob_num = 0 THEN 1 ELSE 0

\* C21: in a migration into a database that holds the rows of an earlier run
\* of the same migration, the bulk copy of the blobs raises no error and no
\* step changes or removes a row that was there.
C21_MigrationIsIdempotent ==
    [][now > 1 =>
          /\ calls.pc = "populate_blobs" => calls'.pc # "raised"
          /\ db.blob \subseteq db'.blob
          /\ db.stream \subseteq db'.stream
          /\ db.stream_blob \subseteq db'.stream_blob]_vars

\* C22: an _import_file whose stream and stream_blob inserts succeed imports
\* the stream, with or without an outpoint and a claim record: the file row is
\* inserted, and a claim row is inserted exactly when the stream's outpoint
\* has a claim record.
C22_ClaimIsOptional ==
    (last.op = "_import_file" /\ last.err # "IntegrityError") =>
        /\ last.err = ""
        /\ \E row \in db.file : row.stream_hash = last.stream_hash
        /\ (db.claim # last.before.claim)
               <=> calls.legacy.claims[last.stream_hash] = "claim record"

\* C23: no stream ever has two file rows: a save_lbry_file for a stream that
\* has a file row fails and changes nothing, and one that succeeds returns the
\* rowid under which get_rowid_for_stream_hash and get_lbry_file_status find
\* the row it inserted.
C23_OneFilePerStream ==
    [][/\ \A r1, r2 \in db'.file : r1.stream_hash = r2.stream_hash => r1 = r2
       /\ last'.op = "save_lbry_file" =>
              /\ (\E r \in db.file : r.stream_hash = last'.stream_hash) =>
                     last'.outcome = "IntegrityError" /\ db' = db
              /\ last'.outcome = "ok" =>
                     /\ get_rowid_for_stream_hash(db', last'.stream_hash) = last'.file_rowid
                     /\ get_lbry_file_status(db', last'.file_rowid) = "stopped"
                     /\ db'.file \ db.file # {}]_vars

C23_Witness ==
    /\ last.op = "save_lbry_file"
    /\ last.outcome = "IntegrityError"
    /\ \E r \in db.file : r.stream_hash = last.stream_hash

\* The claims saved under a claim id, in the order of their save_claim calls.
C24_Saved(claim_id) == SelectSeq(calls.saved, LAMBDA c : c.claim_id = claim_id)

\* C24: get_claim(claim_id) answers with the claim of that claim id that was
\* saved last, whatever the heights of the rows and whatever rows other claim
\* ids have.
C24_LastSavedClaim ==
    (last.op = "get_claim" /\ C24_Saved(last.claim_id) # <<>>) =>
        LET saved == C24_Saved(last.claim_id)
            newest == saved[Len(saved)]
        IN  /\ last.result.err = ""
            /\ last.result.outpoint = newest.outpoint
            /\ last.result.claim_id = last.claim_id
            /\ last.result.height = newest.height

C24_Witness ==
    /\ last.op = "get_claim"
    /\ Len(C24_Saved(last.claim_id)) = 2
    /\ C24_Saved(last.claim_id)[1].height > C24_Saved(last.claim_id)[2].height
    /\ Len(calls.saved) = 3
    /\ calls.saved[3].claim_id # last.claim_id
    /\ last.result.outpoint = C24_Saved(last.claim_id)[2].outpoint

\* C25: a lookup that matches no row answers with an absent value (None, NULL
\* for a hash, no columns, no entries) and never with an error, get_claim of
\* a claim id without a row included.
C25_MissingRowIsAbsent ==
    /\ \A blob_hash \in BlobHashes : ~BlobExists(db, blob_hash) =>
           get_blob_status(db, blob_hash) = None
    /\ \A stream_hash \in StreamHashes : ~StreamExists(db, stream_hash) =>
           /\ get_stream_info(db, stream_hash) = <<>>
           /\ get_sd_blob_hash_for_stream(db, stream_hash) = NULL
           /\ get_blobs_for_stream(db, stream_hash) = <<>>
           /\ get_rowid_for_stream_hash(db, stream_hash) = None
    /\ \A sd_hash \in BlobHashes : (~\E r \in db.stream : r.sd_hash = sd_hash) =>
           get_stream_hash_for_sd_hash(db, sd_hash) = None
    /\ \A rowid \in 1..NumStreams : (~\E r \in db.file : r.rowid = rowid) =>
           get_lbry_file_status(db, rowid) = None
    /\ (last.op = "get_claim" /\ ~\E r \in db.claim : r.claim_id = last.claim_id) =>
           last.result.err = ""

\* C26: get_blobs_for_stream has one entry per stream_blob row of the stream,
\* in ascending order of position whatever the order of insertion; an entry
\* carries the length of the blob row of its hash, and 0 where the hash is
\* NULL or has no blob row.
C26_BlobsOfStream ==
    \A stream_hash \in StreamHashes :
        LET rows == {r \in db.stream_blob : r.stream_hash = stream_hash}
            infos == get_blobs_for_stream(db, stream_hash)
        IN  /\ Len(infos) = Cardinality(rows)
            /\ \A r \in rows : \E i \in 1..Len(infos) :
                   /\ infos[i].blob_hash = r.blob_hash
                   /\ infos[i].blob_num = r.position
                   /\ infos[i].iv = r.iv
            /\ \A i, j \in 1..Len(infos) : i < j => infos[i].blob_num <= infos[j].blob_num
            /\ \A i \in 1..Len(infos) :
                   LET blobs == {b \in db.blob : b.blob_hash = infos[i].blob_hash}
                   IN  IF infos[i].blob_hash = NULL \/ blobs = {}
                       THEN infos[i].length = 0
                       ELSE \E b \in blobs : infos[i].length = b.blob_length

C26_Witness ==
    \E r1, r2 \in db.stream_blob :
        /\ r1.stream_hash = r2.stream_hash
        /\ r1.rowid < r2.rowid
        /\ r1.position > r2.position
        /\ r2.blob_hash # NULL
        /\ ~BlobExists(db, r2.blob_hash)
        /\ get_blobs_for_stream(db, r1.stream_hash)[1].blob_hash = r2.blob_hash

\* C27: the delete transaction of delete_stream leaves no stream_blob row of
\* the stream and no blob row of a hash the stream's chain holds when the
\* transaction runs, whatever happened since the lookups of the call.
C27_DeletesCurrentChain ==
    [][\A c \in CallIds :
           (calls[c].op = "delete_stream" /\ calls[c].pc = "_delete_stream" /\ calls'[c] = Idle) =>
               LET chain == {r.blob_hash : r \in {q \in db.stream_blob : q.stream_hash = calls[c].stream_hash}}
               IN  /\ ~\E r \in db'.stream_blob : r.stream_hash = calls[c].stream_hash
                   /\ ~\E b \in db'.blob : b.blob_hash \in chain]_vars

\* C28: verify_sd_blob's checks of the blobs and validate's checks of the
\* chain accept the same blob lists: a descriptor that has all its fields is
\* refused by validate for its chain (no zero-length last entry, a missing
\* key, an empty list) exactly when verify_sd_blob's loop refuses its blobs.
C28_SameChainsAccepted ==
    (/\ last.op = "validate"
     /\ \A i \in 1..Len(TopLevelFields) : Has(raw_info, TopLevelFields[i])
     /\ \A i \in 1..Len(raw_info.suggested_file_name) : IsHex(raw_info.suggested_file_name[i])) =>
        LET blobs == raw_info.blobs
            verified == /\ \A i \in 1..Len(blobs) : Has(blobs[i], "blob_num")
                        /\ VerifyBlobs(SortedReverse(blobs), blobs) = ""
            validated == /\ last.error \notin {"KeyError", "IndexError"}
                         /\ last.reason # "Does not end with a zero-length blob."
        IN  verified <=> validated

\* C29: get_blobs_to_announce changes the next_announce_time of the blobs it
\* returns and changes no other row and no other column.
C29_OnlyReturnedBlobsChange ==
    [][last'.op = "get_blobs_to_announce" =>
           /\ {r.blob_hash : r \in db'.blob} = {r.blob_hash : r \in db.blob}
           /\ \A r \in db.blob : \A q \in db'.blob : q.blob_hash = r.blob_hash =>
                  /\ q.status = r.status
                  /\ q.blob_length = r.blob_length
                  /\ q.should_announce = r.should_announce
                  /\ (\A i \in 1..Len(last'.blobs) : last'.blobs[i] # r.blob_hash) =>
                         q.next_announce_time = r.next_announce_time]_vars

\* C30: the delete transaction of delete_stream(s) leaves the claim rows and,
\* for every other stream t, the stream row, the stream_blob rows, the file
\* row and the blob rows that t's sd_hash and chain name as they were, also
\* when s and t share blobs.
C30_OtherStreamsIntact ==
    [][\A c \in CallIds :
           (calls[c].op = "delete_stream" /\ calls[c].pc = "_delete_stream" /\ calls'[c] = Idle) =>
               /\ db'.claim = db.claim
               /\ \A t \in SharingStreams \ {calls[c].stream_hash} :
                      /\ \A r \in db.stream : r.stream_hash = t => r \in db'.stream
                      /\ \A r \in db.stream_blob : r.stream_hash = t => r \in db'.stream_blob
                      /\ \A r \in db.file : r.stream_hash = t => r \in db'.file
                      /\ \A b \in db.blob :
                             (\/ \E r \in db.stream : r.stream_hash = t /\ r.sd_hash = b.blob_hash
                              \/ \E r \in db.stream_blob : r.stream_hash = t /\ r.blob_hash = b.blob_hash)
                                 => b \in db'.blob]_vars

\* The members of a list.
C31_Members(list) == {list[i] : i \in 1..Len(list)}

C32_RetriedTakesEffectOnce ==
    [][\A c \in CallIds :
           (/\ calls[c].op = "interaction"
            /\ calls[c].pc = "wrapper"
            /\ calls'[c] # Idle => calls'[c].pc # "wrapper") =>
           /\ calls'[c] # Idle => db' = db /\ calls'[c].pc = "deferLater"
           /\ (calls'[c] = Idle /\ last'.err = NoFailure) =>
                  db' = Statements(calls[c].before, FALSE, calls[c].args,
                                   Writes(calls[c].args), now, now').db]_vars

C32_Witness ==
    /\ last.op = "interaction"
    /\ last.err = NoFailure
    /\ last.failures = MaxFailures
    /\ last.args.f = "get_and_update"
    /\ \E r \in db.blob : r.next_announce_time > now

\* C33: with a contending transaction that ends, every interaction issued
\* ends with a result or with an error other than the lock error; an attempt
\* that met the lock is followed by a turn of the reactor before the next
\* attempt, and it is rerun however many reruns went before.
C33_EveryCallCompletes ==
    /\ (calls.op = "runInteraction") ~>
           (calls.op = "idle" /\ last.op = "runInteraction" /\ last.err # DatabaseIsLocked)
    /\ [][(calls.op = "runInteraction" /\ calls.pc = "wrapper" /\ calls.lock = "held"
           /\ calls' # calls /\ calls'.lock = "held") =>
              calls'.op = "runInteraction" /\ calls'.pc = "deferLater" /\ db' = db]_vars
    /\ [][(calls.op = "runInteraction" /\ calls.pc = "deferLater" /\ calls'.pc # "deferLater") =>
              calls'.pc = "wrapper" /\ db' = db /\ calls'.reruns = calls.reruns]_vars

C33_Witness ==
    /\ last.op = "runInteraction"
    /\ last.reruns = MaxRetries
    /\ last.err = NoFailure
    /\ calls.op = "idle"

============================================================================
